---------------------------- MODULE Spec2Model ----------------------------
(***************************************************************************)
(* Model of the textbook quality evaluation service (Complete_Project.py): *)
(* the upload classifier and text extractor, the Gemini evaluator client,  *)
(* the /analyze pipeline with its GridFS and MongoDB writes, and the       *)
(* /user_history query.                                                    *)
(*                                                                         *)
(* Representation.                                                         *)
(*  - A Python str used for prefix / suffix tests (filename, content type) *)
(*    is a sequence of one-character strings.                              *)
(*  - A document text is run-length encoded: a sequence of runs            *)
(*    [c |-> character, n |-> repetitions], kept canonical (n > 0, no two  *)
(*    neighbouring runs with the same character), so that texts of 20,000  *)
(*    characters and more are ordinary values.                             *)
(*  - Python None / a value is the empty / one-element sequence.           *)
(*  - A JSON value is a record [k, n, s] (kind, number, string); a JSON    *)
(*    object is a function from its keys to JSON values.                   *)
(***************************************************************************)
EXTENDS Integers, Sequences, FiniteSets, TLC

VARIABLES
    users,         \* users_collection: the user documents, in insertion order
    cookies,       \* per browser: its Flask session (the signed cookie)
    client,        \* module global `client`: "ok" or "None" (GEMINI_API_KEY missing)
    now,           \* what datetime.utcnow() returns, in microseconds
    files,         \* files_fs (GridFS): the blobs, in the order they were put
    evaluations,   \* evaluations_collection: the documents, in insertion order
    req,           \* per request: the locals of the /analyze handler serving it
    history,       \* the response of the /user_history request answered by the
                   \* last step, None when the last step was another one
    call           \* a direct call of evaluate_textbook_gemini: its arguments
                   \* and what it returned (None where no such call is made)

vars == <<users, cookies, client, now, files, evaluations, req, history, call>>

---------------------------------------------------------------------------
(* Python None and optional values *)

None == <<>>
Some(x) == <<x>>
IsNone(o) == o = <<>>
Val(o) == o[1]

---------------------------------------------------------------------------
(* Python str as a sequence of characters: lower(), startswith(), endswith() *)

UpperCase ==
    <<"A", "B", "C", "D", "E", "F", "G", "H", "I", "J", "K", "L", "M",
      "N", "O", "P", "Q", "R", "S", "T", "U", "V", "W", "X", "Y", "Z">>

LowerCase ==
    <<"a", "b", "c", "d", "e", "f", "g", "h", "i", "j", "k", "l", "m",
      "n", "o", "p", "q", "r", "s", "t", "u", "v", "w", "x", "y", "z">>

LowerChar(c) ==
    IF \E i \in 1..26 : UpperCase[i] = c
    THEN LowerCase[CHOOSE i \in 1..26 : UpperCase[i] = c]
    ELSE c

StrLower(s) == [i \in 1..Len(s) |-> LowerChar(s[i])]

StartsWith(s, pre) ==
    /\ Len(s) >= Len(pre)
    /\ SubSeq(s, 1, Len(pre)) = pre

EndsWith(s, suf) ==
    /\ Len(s) >= Len(suf)
    /\ SubSeq(s, Len(s) - Len(suf) + 1, Len(s)) = suf

EndsWithAny(s, sufs) == \E suf \in sufs : EndsWith(s, suf)

---------------------------------------------------------------------------
(* Run-length encoded text *)

Run(c, n) == [c |-> c, n |-> n]

RECURSIVE Norm(_)
Norm(t) ==
    IF t = <<>> THEN <<>>
    ELSE IF Head(t).n = 0 THEN Norm(Tail(t))
    ELSE LET rest == Norm(Tail(t))
         IN  IF rest # <<>> /\ Head(rest).c = Head(t).c
             THEN <<Run(Head(t).c, Head(t).n + Head(rest).n)>> \o Tail(rest)
             ELSE <<Head(t)>> \o rest

RECURSIVE TextLen(_)
TextLen(t) == IF t = <<>> THEN 0 ELSE Head(t).n + TextLen(Tail(t))

\* text[:k]
RECURSIVE TextTake(_, _)
TextTake(t, k) ==
    IF t = <<>> \/ k <= 0 THEN <<>>
    ELSE IF Head(t).n >= k THEN <<Run(Head(t).c, k)>>
    ELSE <<Head(t)>> \o TextTake(Tail(t), k - Head(t).n)

\* text[k:]
RECURSIVE TextDrop(_, _)
TextDrop(t, k) ==
    IF t = <<>> \/ k <= 0 THEN t
    ELSE IF Head(t).n > k THEN <<Run(Head(t).c, Head(t).n - k)>> \o Tail(t)
    ELSE TextDrop(Tail(t), k - Head(t).n)

TextCat(a, b) == Norm(a \o b)

Whitespace == {" ", "\n", "\t"}

\* str.strip(): the text without its leading and trailing whitespace runs
RECURSIVE LStrip(_)
LStrip(t) ==
    IF t = <<>> THEN <<>>
    ELSE IF Head(t).c \in Whitespace THEN LStrip(Tail(t))
    ELSE t

RECURSIVE RStrip(_)
RStrip(t) ==
    IF t = <<>> THEN <<>>
    ELSE IF t[Len(t)].c \in Whitespace THEN RStrip(SubSeq(t, 1, Len(t) - 1))
    ELSE t

Strip(t) == RStrip(LStrip(t))

\* "\n".join(parts)
RECURSIVE JoinNL(_)
JoinNL(parts) ==
    IF parts = <<>> THEN <<>>
    ELSE IF Len(parts) = 1 THEN parts[1]
    ELSE TextCat(TextCat(parts[1], <<Run("\n", 1)>>), JoinNL(Tail(parts)))

\* bytes.decode("utf-8", errors="ignore"): bytes that are not valid UTF-8
\* (here the byte 0xFF) are dropped, the others become their character
InvalidBytes == {"xFF"}

RECURSIVE DropInvalid(_)
DropInvalid(b) ==
    IF b = <<>> THEN <<>>
    ELSE IF Head(b).c \in InvalidBytes THEN DropInvalid(Tail(b))
    ELSE <<Head(b)>> \o DropInvalid(Tail(b))

DecodeUtf8Ignore(b) == Norm(DropInvalid(b))

---------------------------------------------------------------------------
(* JSON values (json.loads) and Python's str() / isinstance() on them *)

JNull     == [k |-> "null",  n |-> 0, s |-> ""]
JStr(s)   == [k |-> "str",   n |-> 0, s |-> s]
JInt(n)   == [k |-> "int",   n |-> n, s |-> ""]
JFloat(t) == [k |-> "float", n |-> t, s |-> ""]   \* n is the value in tenths
JBool(b)  == [k |-> "bool",  n |-> IF b THEN 1 ELSE 0, s |-> ""]

\* dict.get(key, default)
Get(d, key, default) == IF key \in DOMAIN d THEN d[key] ELSE default

\* isinstance(v, (int, float)): bool is a subclass of int
IsIntOrFloat(v) == v.k \in {"int", "float", "bool"}

\* str(v), also what an f-string writes for v
PyStr(v) ==
    CASE v.k = "int"   -> ToString(v.n)
      [] v.k = "float" -> ToString(v.n \div 10) \o "." \o ToString(v.n % 10)
      [] v.k = "bool"  -> IF v.n = 1 THEN "True" ELSE "False"
      [] v.k = "str"   -> v.s
      [] OTHER         -> "None"

---------------------------------------------------------------------------
(* Uploaded bytes.  What a parser makes of the bytes is part of the value:  *)
(* `bytes` is the raw byte string, `pages` what PdfReader finds (one entry  *)
(* per page), `paras` what docx.Document finds (one text per paragraph).    *)

Body(fmt, bytes, pages, paras) ==
    [fmt |-> fmt, bytes |-> bytes, pages |-> pages, paras |-> paras]

\* page.extract_text(): a text, None, or an exception
PageText(t) == [kind |-> "text",  text |-> t]
PageNone    == [kind |-> "none",  text |-> <<>>]
PageRaises  == [kind |-> "raise", text |-> <<>>]

MAX_CHARS == 20000

MsgUnsupported == "Unsupported document type. Please upload PDF, DOCX, or TXT."
MsgNoText      == "No readable text found in the uploaded file."

Returned(t)       == [exc |-> "",  msg |-> "",  text |-> t]
Raised(exc, msg)  == [exc |-> exc, msg |-> msg, text |-> <<>>]

\* pages_text with an empty string appended for a page that raises
RECURSIVE PagesText_EmptyString(_)
PagesText_EmptyString(pages) ==
    IF pages = <<>> THEN <<>>
    ELSE IF Head(pages).kind = "raise" THEN <<<<>>>> \o PagesText_EmptyString(Tail(pages))
    ELSE <<Head(pages).text>> \o PagesText_EmptyString(Tail(pages))

\* the for loop over reader.pages: pages_text
RECURSIVE PagesText(_)
PagesText(pages) ==
    IF pages = <<>> THEN <<>>
    ELSE IF Head(pages).kind = "raise" THEN PagesText(Tail(pages))
    ELSE <<Head(pages).text>> \o PagesText(Tail(pages))

\* NaturalText with every other extension read as plain text
NaturalText_TxtFallback(filename, raw_bytes) ==
    LET filename_lower == StrLower(filename)
    IN  IF EndsWith(filename_lower, <<".", "p", "d", "f">>)
        THEN IF raw_bytes.fmt = "pdf"
             THEN Returned(JoinNL(PagesText(raw_bytes.pages)))
             ELSE Raised("Exception", "EOF marker not found")
        ELSE IF EndsWith(filename_lower, <<".", "d", "o", "c", "x">>)
        THEN IF raw_bytes.fmt = "docx"
             THEN Returned(JoinNL(raw_bytes.paras))
             ELSE Raised("Exception", "File is not a zip file")
        ELSE Returned(DecodeUtf8Ignore(raw_bytes.bytes))

\* the text of the document before the size limit, or the exception of the parser
NaturalText(filename, raw_bytes) ==
    LET filename_lower == StrLower(filename)
    IN  IF EndsWith(filename_lower, <<".", "p", "d", "f">>)
        THEN IF raw_bytes.fmt = "pdf"
             THEN Returned(JoinNL(PagesText(raw_bytes.pages)))
             ELSE Raised("Exception", "EOF marker not found")
        ELSE IF EndsWith(filename_lower, <<".", "d", "o", "c", "x">>)
        THEN IF raw_bytes.fmt = "docx"
             THEN Returned(JoinNL(raw_bytes.paras))
             ELSE Raised("Exception", "File is not a zip file")
        ELSE IF EndsWith(filename_lower, <<".", "t", "x", "t">>)
        THEN Returned(DecodeUtf8Ignore(raw_bytes.bytes))
        ELSE Raised("ValueError", MsgUnsupported)

\* Truncate cutting one character late: text[:MAX_CHARS + 1]
Truncate_OffByOne(text) ==
    IF TextLen(text) > MAX_CHARS THEN TextTake(text, MAX_CHARS + 1) ELSE text

\* text[:MAX_CHARS] when len(text) > MAX_CHARS
Truncate(text) ==
    IF TextLen(text) > MAX_CHARS THEN TextTake(text, MAX_CHARS) ELSE text

\* not text.strip()
IsBlank(text) == Strip(text) = <<>>

\* extract_text_from_file_bytes returning text.strip()
extract_text_stripped(filename, raw_bytes) ==
    LET natural == NaturalText(filename, raw_bytes)
        text    == Truncate(natural.text)
    IN  IF natural.exc # "" THEN natural
        ELSE IF IsBlank(text) THEN Raised("ValueError", MsgNoText)
        ELSE Returned(Strip(text))

\* extract_text_from_file_bytes without the test for blank text
extract_text_BlankAccepted(filename, raw_bytes) ==
    LET natural == NaturalText(filename, raw_bytes)
    IN  IF natural.exc # "" THEN natural
        ELSE Returned(Truncate(natural.text))

\* extract_text_from_file_bytes testing for blank text before the size limit
extract_text_BlankCheckFirst(filename, raw_bytes) ==
    LET natural == NaturalText(filename, raw_bytes)
    IN  IF natural.exc # "" THEN natural
        ELSE IF IsBlank(natural.text) THEN Raised("ValueError", MsgNoText)
        ELSE Returned(Truncate(natural.text))

extract_text_from_file_bytes(filename, raw_bytes) ==
    LET natural == NaturalText(filename, raw_bytes)
        text    == Truncate(natural.text)
    IN  IF natural.exc # "" THEN natural
        ELSE IF IsBlank(text) THEN Raised("ValueError", MsgNoText)
        ELSE Returned(text)

---------------------------------------------------------------------------
(* evaluate_textbook_gemini *)

MsgClientNone  == "Analysis Error: Gemini Client not initialized. Set GEMINI_API_KEY correctly."
MsgNoContent   == "No content to analyze."
MsgCallFailed  == "Analysis Error: API call failed or returned invalid data. Details: "

ErrorDict(msg) == [error |-> JStr(msg)]

DefaultMime == <<"i", "m", "a", "g", "e", "/", "j", "p", "e", "g">>

\* the items of `contents`
PromptPart         == [part |-> "prompt", text |-> <<>>, data |-> None, mime |-> <<>>]
TextPart(t)        == [part |-> "text",   text |-> t,    data |-> None, mime |-> <<>>]
ImagePart(d, mime) == [part |-> "image",  text |-> <<>>, data |-> Some(d), mime |-> mime]

\* What client.models.generate_content and json.loads(response.text) do:
\* the call raises, the text is not JSON, or the text is a JSON object
ReplyRaises(detail)  == [kind |-> "raise", detail |-> detail, obj |-> None]
ReplyNotJson(detail) == [kind |-> "text",  detail |-> detail, obj |-> None]
ReplyJson(obj)       == [kind |-> "json",  detail |-> "",     obj |-> Some(obj)]

\* not text_content or not text_content.strip()
NoText(text_content) ==
    \/ IsNone(text_content)
    \/ Val(text_content) = <<>>
    \/ IsBlank(Val(text_content))

\* contents with the image appended before the text
Contents_ImageFirst(text_content, image_bytes, image_mime) ==
    <<PromptPart>>
    \o (IF IsNone(image_bytes) THEN <<>>
        ELSE <<ImagePart(Val(image_bytes),
                         IF IsNone(image_mime) \/ Val(image_mime) = <<>>
                         THEN DefaultMime ELSE Val(image_mime))>>)
    \o (IF NoText(text_content) THEN <<>> ELSE <<TextPart(Val(text_content))>>)

\* contents: the prompt, then the text if any, then the image if any
Contents(text_content, image_bytes, image_mime) ==
    <<PromptPart>>
    \o (IF NoText(text_content) THEN <<>> ELSE <<TextPart(Val(text_content))>>)
    \o (IF IsNone(image_bytes) THEN <<>>
        ELSE <<ImagePart(Val(image_bytes),
                         IF IsNone(image_mime) \/ Val(image_mime) = <<>>
                         THEN DefaultMime ELSE Val(image_mime))>>)

\* the try block: generate_content, then json.loads
ParseReply(reply) ==
    IF reply.kind = "json" THEN Val(reply.obj)
    ELSE ErrorDict(MsgCallFailed \o reply.detail)

\* evaluate_textbook_gemini testing for content before testing the client
evaluate_ContentFirst(cl, text_content, image_bytes, image_mime, reply) ==
    IF NoText(text_content) /\ IsNone(image_bytes)
    THEN [called |-> FALSE, contents |-> <<>>, result |-> ErrorDict(MsgNoContent)]
    ELSE IF cl = "None"
    THEN [called |-> FALSE, contents |-> <<>>, result |-> ErrorDict(MsgClientNone)]
    ELSE [called |-> TRUE,
          contents |-> Contents(text_content, image_bytes, image_mime),
          result |-> ParseReply(reply)]

\* evaluate_textbook_gemini asking for content only when there is no image
\* and the text is None (a blank text passes)
evaluate_BlankPasses(cl, text_content, image_bytes, image_mime, reply) ==
    IF cl = "None"
    THEN [called |-> FALSE, contents |-> <<>>, result |-> ErrorDict(MsgClientNone)]
    ELSE IF (IsNone(text_content) \/ Val(text_content) = <<>>) /\ IsNone(image_bytes)
    THEN [called |-> FALSE, contents |-> <<>>, result |-> ErrorDict(MsgNoContent)]
    ELSE [called |-> TRUE,
          contents |-> Contents(text_content, image_bytes, image_mime),
          result |-> ParseReply(reply)]

\* [called: whether generate_content was called, contents: with what,
\*  result: the dict returned]
evaluate_textbook_gemini(cl, text_content, image_bytes, image_mime, reply) ==
    IF cl = "None"
    THEN [called |-> FALSE, contents |-> <<>>, result |-> ErrorDict(MsgClientNone)]
    ELSE IF NoText(text_content) /\ IsNone(image_bytes)
    THEN [called |-> FALSE, contents |-> <<>>, result |-> ErrorDict(MsgNoContent)]
    ELSE [called |-> TRUE,
          contents |-> Contents(text_content, image_bytes, image_mime),
          result |-> ParseReply(reply)]

---------------------------------------------------------------------------
(* The Flask session and the upload of a request *)

EmptySession == [key \in {} |-> ""]
LoggedIn(user_id, username) ==
    [logged_in |-> "True", username |-> username, user_id |-> user_id]

\* "logged_in" not in session or "user_id" not in session
Unauthorized(session) ==
    \/ "logged_in" \notin DOMAIN session
    \/ "user_id" \notin DOMAIN session

Upload(filename, content_type, data) ==
    [filename |-> filename, content_type |-> content_type, data |-> data]

CameraCaptureName ==
    <<"c", "a", "m", "e", "r", "a", "_", "c", "a", "p", "t", "u", "r", "e",
      ".", "j", "p", "g">>

\* the file name used as it arrived, empty or not
FileName_AsUploaded(upload) == upload.filename

\* file.filename, or "camera_capture.jpg" when it is empty
FileName(upload) ==
    IF upload.filename = <<>> THEN CameraCaptureName ELSE upload.filename

ImagePrefix == <<"i", "m", "a", "g", "e", "/">>

ImageSuffixes ==
    { <<".", "p", "n", "g">>, <<".", "j", "p", "g">>, <<".", "j", "p", "e", "g">>,
      <<".", "w", "e", "b", "p">>, <<".", "b", "m", "p">>, <<".", "g", "i", "f">> }

\* is_image with the file name compared as uploaded (no lower())
IsImage_CaseSensitive(content_type, filename) ==
    \/ StartsWith(content_type, ImagePrefix)
    \/ EndsWithAny(filename, ImageSuffixes)

\* is_image
IsImage(content_type, filename) ==
    \/ StartsWith(content_type, ImagePrefix)
    \/ EndsWithAny(StrLower(filename), ImageSuffixes)

\* image_mime as `content_type or "image/jpeg"`: any declared type is sent
ImageMime_AnyDeclared(content_type) ==
    IF content_type # <<>> THEN content_type ELSE DefaultMime

\* image_mime
ImageMime(content_type) ==
    IF StartsWith(content_type, ImagePrefix) THEN content_type ELSE DefaultMime

---------------------------------------------------------------------------
(* The locals of one /analyze request *)

Resp(status, body) == [status |-> status, body |-> body]

IdleReq ==
    [pc              |-> "idle",
     session         |-> EmptySession,
     upload_filename |-> None,   \* file.filename as it arrived
     filename        |-> <<>>,
     content_type    |-> <<>>,
     file_bytes      |-> None,
     file_id         |-> 0,      \* position of the blob in files, 0: none
     put_calls       |-> 0,      \* calls of files_fs.put
     branch          |-> <<>>,
     text_content    |-> None,
     image_bytes     |-> None,
     image_mime      |-> None,
     evaluation_data |-> None,
     sent            |-> <<>>,
     inserts         |-> <<>>,
     response        |-> None]

Finish(q, status, body) ==
    [q EXCEPT !.pc = "done", !.response = Some(Resp(status, body))]

MsgUnauthorized == "Unauthorized"
MsgNoFile       == "No file found in request"
MsgProcess      == "Failed to process file: "
MsgPutFailed    == "could not write to GridFS"

\* files_fs.put(file_bytes, filename=..., content_type=..., uploaded_at=..., user_id=...)
Blob(data, filename, content_type, uploaded_at, user_id) ==
    [data |-> data, filename |-> filename, content_type |-> content_type,
     uploaded_at |-> uploaded_at, user_id |-> user_id]

\* ClassifyAndExtract answering a ValueError of the extractor with status 500
ClassifyAndExtract_ServerError(q) ==
    IF IsImage(q.content_type, q.filename)
    THEN [q EXCEPT !.pc = "evaluate",
                   !.branch = Append(q.branch, "image"),
                   !.image_bytes = q.file_bytes,
                   !.image_mime = Some(ImageMime(q.content_type))]
    ELSE LET ex == extract_text_from_file_bytes(q.filename, Val(q.file_bytes))
             q1 == [q EXCEPT !.branch = Append(q.branch, "text")]
         IN  IF ex.exc = "ValueError" THEN Finish(q1, 500, ErrorDict(ex.msg))
             ELSE IF ex.exc # "" THEN Finish(q1, 400, ErrorDict(MsgProcess \o ex.msg))
             ELSE [q1 EXCEPT !.pc = "evaluate", !.text_content = Some(ex.text)]

\* The try block of analyze after the put: classify, then take the image
\* branch or extract the text.  `branch` lists the branches taken.
ClassifyAndExtract(q) ==
    IF IsImage(q.content_type, q.filename)
    THEN [q EXCEPT !.pc = "evaluate",
                   !.branch = Append(q.branch, "image"),
                   !.image_bytes = q.file_bytes,
                   !.image_mime = Some(ImageMime(q.content_type))]
    ELSE LET ex == extract_text_from_file_bytes(q.filename, Val(q.file_bytes))
             q1 == [q EXCEPT !.branch = Append(q.branch, "text")]
         IN  IF ex.exc = "ValueError" THEN Finish(q1, 400, ErrorDict(ex.msg))
             ELSE IF ex.exc # "" THEN Finish(q1, 400, ErrorDict(MsgProcess \o ex.msg))
             ELSE [q1 EXCEPT !.pc = "evaluate", !.text_content = Some(ex.text)]

\* Analyze storing the blob only after the upload was classified and its
\* text extracted: a rejected upload is not stored
Analyze_PutAfterExtract(r, session, upload, putOk) ==
    /\ LET q0 == [IdleReq EXCEPT !.session = session]
       IN  IF Unauthorized(session)
           THEN /\ req' = [req EXCEPT ![r] = Finish(q0, 401, ErrorDict(MsgUnauthorized))]
                /\ files' = files
           ELSE IF IsNone(upload)
           THEN /\ req' = [req EXCEPT ![r] = Finish(q0, 400, ErrorDict(MsgNoFile))]
                /\ files' = files
           ELSE LET q1 == [q0 EXCEPT !.upload_filename = Some(Val(upload).filename),
                                     !.filename = FileName(Val(upload)),
                                     !.content_type = Val(upload).content_type,
                                     !.file_bytes = Some(Val(upload).data)]
                    q2 == ClassifyAndExtract(q1)
                IN  IF q2.pc = "done"
                    THEN /\ req' = [req EXCEPT ![r] = q2]
                         /\ files' = files
                    ELSE IF ~putOk
                    THEN /\ req' = [req EXCEPT ![r] =
                                Finish([q2 EXCEPT !.put_calls = 1], 400,
                                       ErrorDict(MsgProcess \o MsgPutFailed))]
                         /\ files' = files
                    ELSE /\ files' = Append(files,
                                Blob(Val(upload).data, q1.filename, q1.content_type,
                                     now, session.user_id))
                         /\ req' = [req EXCEPT ![r] =
                                [q2 EXCEPT !.file_id = Len(files) + 1, !.put_calls = 1]]
    /\ history' = None
    /\ UNCHANGED <<call, users, cookies, client, now, evaluations>>

\* Analyze reading and storing the upload before it tests the session
Analyze_PutBeforeSessionCheck(r, session, upload, putOk) ==
    /\ LET q0 == [IdleReq EXCEPT !.session = session]
       IN  IF IsNone(upload)
           THEN /\ req' = [req EXCEPT ![r] =
                       IF Unauthorized(session)
                       THEN Finish(q0, 401, ErrorDict(MsgUnauthorized))
                       ELSE Finish(q0, 400, ErrorDict(MsgNoFile))]
                /\ files' = files
           ELSE LET q1 == [q0 EXCEPT !.upload_filename = Some(Val(upload).filename),
                                     !.filename = FileName(Val(upload)),
                                     !.content_type = Val(upload).content_type,
                                     !.file_bytes = Some(Val(upload).data),
                                     !.put_calls = 1]
                IN  IF ~putOk
                    THEN /\ req' = [req EXCEPT ![r] =
                                Finish(q1, 400, ErrorDict(MsgProcess \o MsgPutFailed))]
                         /\ files' = files
                    ELSE /\ files' = Append(files,
                                Blob(Val(upload).data, q1.filename, q1.content_type,
                                     now, Get(session, "user_id", "")))
                         /\ req' = [req EXCEPT ![r] =
                                IF Unauthorized(session)
                                THEN Finish([q1 EXCEPT !.file_id = Len(files) + 1],
                                            401, ErrorDict(MsgUnauthorized))
                                ELSE ClassifyAndExtract([q1 EXCEPT !.file_id = Len(files) + 1])]
    /\ history' = None
    /\ UNCHANGED <<call, users, cookies, client, now, evaluations>>

\* analyze, from the session check to the end of the first try block.
\* upload is None when the request carries no "file"; putOk tells whether
\* files_fs.put returns or raises.
Analyze(r, session, upload, putOk) ==
    /\ LET q0 == [IdleReq EXCEPT !.session = session]
       IN  IF Unauthorized(session)
           THEN /\ req' = [req EXCEPT ![r] = Finish(q0, 401, ErrorDict(MsgUnauthorized))]
                /\ files' = files
           ELSE IF IsNone(upload)
           THEN /\ req' = [req EXCEPT ![r] = Finish(q0, 400, ErrorDict(MsgNoFile))]
                /\ files' = files
           ELSE LET q1 == [q0 EXCEPT !.upload_filename = Some(Val(upload).filename),
                                     !.filename = FileName(Val(upload)),
                                     !.content_type = Val(upload).content_type,
                                     !.file_bytes = Some(Val(upload).data),
                                     !.put_calls = 1]
                IN  IF ~putOk
                    THEN /\ req' = [req EXCEPT ![r] =
                                Finish(q1, 400, ErrorDict(MsgProcess \o MsgPutFailed))]
                         /\ files' = files
                    ELSE /\ files' = Append(files,
                                Blob(Val(upload).data, q1.filename, q1.content_type,
                                     now, session.user_id))
                         /\ req' = [req EXCEPT ![r] =
                                ClassifyAndExtract([q1 EXCEPT !.file_id = Len(files) + 1])]
    /\ history' = None
    /\ UNCHANGED <<call, users, cookies, client, now, evaluations>>

\* a request arrives: its session, its upload and the fate of the put are
\* drawn from the given sets
Receive(r, sessions, uploads, putOks) ==
    /\ req[r].pc = "idle"
    /\ \E session \in sessions, upload \in uploads, putOk \in putOks :
            Analyze(r, session, upload, putOk)

\* overall_str without the "/5"
OverallStr_NoSuffix(evaluation_data) ==
    LET overall_num == Get(evaluation_data, "overall_rating", JNull)
    IN  IF overall_num # JNull THEN PyStr(overall_num) ELSE "No rating"

\* overall_str with `if overall_num:` in place of the isinstance test
OverallStr_Truthy(evaluation_data) ==
    LET overall_num == Get(evaluation_data, "overall_rating", JNull)
    IN  IF IsIntOrFloat(overall_num) /\ overall_num.n # 0
        THEN PyStr(overall_num) \o "/5"
        ELSE IF overall_num # JNull THEN PyStr(overall_num)
        ELSE "No rating"

\* overall_str
OverallStr(evaluation_data) ==
    LET overall_num == Get(evaluation_data, "overall_rating", JNull)
    IN  IF IsIntOrFloat(overall_num) THEN PyStr(overall_num) \o "/5"
        ELSE IF overall_num # JNull THEN PyStr(overall_num)
        ELSE "No rating"

\* eval_doc referring to the blob stored last, whichever request stored it
EvalDoc_LatestFile(q, timestamp) ==
    LET ed == Val(q.evaluation_data)
    IN  [user_id             |-> q.session.user_id,
         username            |-> q.session.username,
         timestamp           |-> timestamp,
         input_type          |-> IF ~IsNone(q.image_bytes) THEN "image" ELSE "document",
         file_id             |-> Len(files),
         original_filename   |-> files[Len(files)].filename,
         content_type        |-> q.content_type,
         accuracy_score      |-> Get(ed, "accuracy_score", JNull),
         readability_score   |-> Get(ed, "readability_score", JNull),
         consistency_score   |-> Get(ed, "consistency_score", JNull),
         accuracy_text       |-> Get(ed, "accuracy", JStr("")),
         readability_text    |-> Get(ed, "readability", JStr("")),
         consistency_text    |-> Get(ed, "consistency", JStr("")),
         overall_rating_value |-> Get(ed, "overall_rating", JNull),
         overall_rating      |-> OverallStr(ed),
         summary             |-> Get(ed, "summary", JStr("")),
         full_extracted_text |-> IF IsNone(q.text_content) \/ Val(q.text_content) = <<>>
                                 THEN None ELSE q.text_content,
         raw_evaluation      |-> ed]

\* eval_doc written without the reference of the blob
EvalDoc_NoFileRef(q, timestamp) ==
    [EvalDoc_LatestFile(q, timestamp) EXCEPT !.file_id = 0,
                                             !.original_filename = q.filename]

\* eval_doc
EvalDoc(q, timestamp) ==
    LET ed == Val(q.evaluation_data)
    IN  [user_id             |-> q.session.user_id,
         username            |-> q.session.username,
         timestamp           |-> timestamp,
         input_type          |-> IF ~IsNone(q.image_bytes) THEN "image" ELSE "document",
         file_id             |-> q.file_id,
         original_filename   |-> q.filename,
         content_type        |-> q.content_type,
         accuracy_score      |-> Get(ed, "accuracy_score", JNull),
         readability_score   |-> Get(ed, "readability_score", JNull),
         consistency_score   |-> Get(ed, "consistency_score", JNull),
         accuracy_text       |-> Get(ed, "accuracy", JStr("")),
         readability_text    |-> Get(ed, "readability", JStr("")),
         consistency_text    |-> Get(ed, "consistency", JStr("")),
         overall_rating_value |-> Get(ed, "overall_rating", JNull),
         overall_rating      |-> OverallStr(ed),
         summary             |-> Get(ed, "summary", JStr("")),
         full_extracted_text |-> IF IsNone(q.text_content) \/ Val(q.text_content) = <<>>
                                 THEN None ELSE q.text_content,
         raw_evaluation      |-> ed]

Unavailable == JStr("AI analysis unavailable.")

\* the JSON body of the success response
SuccessBody(ed) ==
    [accuracy_score    |-> Get(ed, "accuracy_score", JNull),
     accuracy          |-> Get(ed, "accuracy", Unavailable),
     readability_score |-> Get(ed, "readability_score", JNull),
     readability       |-> Get(ed, "readability", Unavailable),
     consistency_score |-> Get(ed, "consistency_score", JNull),
     consistency       |-> Get(ed, "consistency", Unavailable),
     overall_rating    |-> Get(ed, "overall_rating", Unavailable),
     summary           |-> Get(ed, "summary", Unavailable)]

\* CallEvaluator that also inserts a document for a failed evaluation
CallEvaluator_PersistsError(r, reply) ==
    /\ LET q   == req[r]
           out == evaluate_textbook_gemini(
                      client,
                      Some(IF IsNone(q.text_content) THEN <<>> ELSE Val(q.text_content)),
                      q.image_bytes, q.image_mime, reply)
           q1  == [q EXCEPT !.evaluation_data = Some(out.result),
                            !.sent = IF out.called THEN Append(q.sent, out.contents)
                                     ELSE q.sent]
       IN  IF "error" \in DOMAIN out.result
           THEN /\ req' = [req EXCEPT ![r] = Finish(q1, 500, out.result)]
                /\ evaluations' = Append(evaluations, EvalDoc(q1, now))
           ELSE /\ req' = [req EXCEPT ![r] = [q1 EXCEPT !.pc = "save"]]
                /\ evaluations' = evaluations
    /\ history' = None
    /\ UNCHANGED <<call, users, cookies, client, now, files>>

\* CallEvaluator calling the model a second time when the first call failed
CallEvaluator_Retries(r, reply) ==
    /\ LET q   == req[r]
           out == evaluate_textbook_gemini(
                      client,
                      Some(IF IsNone(q.text_content) THEN <<>> ELSE Val(q.text_content)),
                      q.image_bytes, q.image_mime, reply)
           failed == out.called /\ "error" \in DOMAIN out.result
           q1  == [q EXCEPT !.evaluation_data = Some(out.result),
                            !.sent = IF failed THEN q.sent \o <<out.contents, out.contents>>
                                     ELSE IF out.called THEN Append(q.sent, out.contents)
                                     ELSE q.sent]
       IN  req' = [req EXCEPT ![r] =
                      IF "error" \in DOMAIN out.result
                      THEN Finish(q1, 500, out.result)
                      ELSE [q1 EXCEPT !.pc = "save"]]
    /\ history' = None
    /\ UNCHANGED <<call, users, cookies, client, now, files, evaluations>>

\* CallEvaluator without the test for "error": every result is saved
CallEvaluator_IgnoresError(r, reply) ==
    /\ LET q   == req[r]
           out == evaluate_textbook_gemini(
                      client,
                      Some(IF IsNone(q.text_content) THEN <<>> ELSE Val(q.text_content)),
                      q.image_bytes, q.image_mime, reply)
           q1  == [q EXCEPT !.evaluation_data = Some(out.result),
                            !.sent = IF out.called THEN Append(q.sent, out.contents)
                                     ELSE q.sent]
       IN  req' = [req EXCEPT ![r] = [q1 EXCEPT !.pc = "save"]]
    /\ history' = None
    /\ UNCHANGED <<call, users, cookies, client, now, files, evaluations>>

\* CallEvaluator testing `evaluation_data.get("error")`: a result whose
\* error is null or empty counts as a success
CallEvaluator_ErrorTruthy(r, reply) ==
    /\ LET q   == req[r]
           out == evaluate_textbook_gemini(
                      client,
                      Some(IF IsNone(q.text_content) THEN <<>> ELSE Val(q.text_content)),
                      q.image_bytes, q.image_mime, reply)
           q1  == [q EXCEPT !.evaluation_data = Some(out.result),
                            !.sent = IF out.called THEN Append(q.sent, out.contents)
                                     ELSE q.sent]
       IN  req' = [req EXCEPT ![r] =
                      IF Get(out.result, "error", JNull) \notin {JNull, JStr("")}
                      THEN Finish(q1, 500, out.result)
                      ELSE [q1 EXCEPT !.pc = "save"]]
    /\ history' = None
    /\ UNCHANGED <<call, users, cookies, client, now, files, evaluations>>

\* analyze: the call of evaluate_textbook_gemini and the test of its result.
\* reply is what the external model answers if it is called.
CallEvaluator(r, reply) ==
    /\ LET q   == req[r]
           out == evaluate_textbook_gemini(
                      client,
                      Some(IF IsNone(q.text_content) THEN <<>> ELSE Val(q.text_content)),
                      q.image_bytes, q.image_mime, reply)
           q1  == [q EXCEPT !.evaluation_data = Some(out.result),
                            !.sent = IF out.called THEN Append(q.sent, out.contents)
                                     ELSE q.sent]
       IN  req' = [req EXCEPT ![r] =
                      IF "error" \in DOMAIN out.result
                      THEN Finish(q1, 500, out.result)
                      ELSE [q1 EXCEPT !.pc = "save"]]
    /\ history' = None
    /\ UNCHANGED <<call, users, cookies, client, now, files, evaluations>>

Evaluate(r, replies) ==
    /\ req[r].pc = "evaluate"
    /\ \E reply \in replies : CallEvaluator(r, reply)

\* SaveAndRespond that answers 500 when insert_one raises
SaveAndRespond_Aborts(r, insertOk) ==
    /\ evaluations' = IF insertOk THEN Append(evaluations, EvalDoc(req[r], now))
                      ELSE evaluations
    /\ req' = [req EXCEPT ![r] =
                  LET q == [req[r] EXCEPT !.inserts =
                                Append(@, IF insertOk THEN Len(evaluations) + 1 ELSE 0)]
                  IN  IF insertOk
                      THEN Finish(q, 200, SuccessBody(Val(q.evaluation_data)))
                      ELSE Finish(q, 500, ErrorDict("could not save"))]
    /\ history' = None
    /\ UNCHANGED <<call, users, cookies, client, now, files>>

\* SaveAndRespond keeping one document per user: replace_one(..., upsert=True)
\* in place of insert_one
SaveAndRespond_Upsert(r, insertOk) ==
    /\ LET doc  == EvalDoc(req[r], now)
           mine == {i \in 1..Len(evaluations) : evaluations[i].user_id = doc.user_id}
       IN  /\ evaluations' =
                  IF ~insertOk THEN evaluations
                  ELSE IF mine = {} THEN Append(evaluations, doc)
                  ELSE [i \in 1..Len(evaluations) |->
                           IF i \in mine THEN doc ELSE evaluations[i]]
           /\ req' = [req EXCEPT ![r] =
                  Finish([req[r] EXCEPT !.inserts =
                              Append(@, IF ~insertOk THEN 0
                                        ELSE IF mine = {} THEN Len(evaluations) + 1
                                        ELSE CHOOSE i \in mine : TRUE)],
                         200, SuccessBody(Val(req[r].evaluation_data)))]
    /\ history' = None
    /\ UNCHANGED <<call, users, cookies, client, now, files>>

\* analyze, from the overall rating to the response: the document is built
\* and inserted (insertOk tells whether insert_one returns or raises; an
\* exception is printed and dropped), then the response is returned.
\* `inserts` lists the insert_one calls of the request: the position of the
\* inserted document, 0 for a call that raised.
SaveAndRespond(r, insertOk) ==
    /\ evaluations' = IF insertOk THEN Append(evaluations, EvalDoc(req[r], now))
                      ELSE evaluations
    /\ req' = [req EXCEPT ![r] =
                  Finish([req[r] EXCEPT !.inserts =
                              Append(@, IF insertOk THEN Len(evaluations) + 1 ELSE 0)],
                         200, SuccessBody(Val(req[r].evaluation_data)))]
    /\ history' = None
    /\ UNCHANGED <<call, users, cookies, client, now, files>>

Save(r, insertOks) ==
    /\ req[r].pc = "save"
    /\ \E insertOk \in insertOks : SaveAndRespond(r, insertOk)

\* a microsecond passes (the clock is followed up to maxMicros)
TickMicro(maxMicros) ==
    /\ now < maxMicros
    /\ now' = now + 1
    /\ history' = None
    /\ UNCHANGED <<call, users, cookies, client, files, evaluations, req>>

---------------------------------------------------------------------------
(* user_history *)

HISTORY_LIMIT == 50

MICROS_PER_SECOND == 1000000

\* ts.strftime("%Y-%m-%d %H:%M:%S"): the time to the second
FormatTs(ts) == ts \div MICROS_PER_SECOND

\* one entry of the "history" list
HistoryEntry(doc) ==
    [timestamp         |-> FormatTs(doc.timestamp),
     overall_rating    |-> doc.overall_rating,
     summary           |-> doc.summary,
     original_filename |-> doc.original_filename]

\* find({}): the positions of all documents, whoever owns them
Find_AllUsers(docs, user_id) == [i \in 1..Len(docs) |-> i]

\* find({"user_id": user_id}): the positions of the user's documents
Find(docs, user_id) ==
    SelectSeq([i \in 1..Len(docs) |-> i], LAMBDA i : docs[i].user_id = user_id)

\* the positions among `found` whose timestamp another of them has too
Tied(docs, found) ==
    LET S == {found[n] : n \in 1..Len(found)}
    IN  IF Cardinality({docs[i].timestamp : i \in S}) = Cardinality(S) THEN {}
        ELSE {i \in S : \E j \in S : j # i /\ docs[j].timestamp = docs[i].timestamp}

\* sort("timestamp", 1): earlier timestamps first
Sort_Ascending(docs, found, order) ==
    SortSeq(found, LAMBDA i, j :
        \/ docs[i].timestamp < docs[j].timestamp
        \/ docs[i].timestamp = docs[j].timestamp /\ order[i] < order[j])

\* sort("timestamp", -1): later timestamps first.  Documents with equal
\* timestamps come in an order MongoDB does not fix: `order` ranks them.
Sort(docs, found, order) ==
    SortSeq(found, LAMBDA i, j :
        \/ docs[i].timestamp > docs[j].timestamp
        \/ docs[i].timestamp = docs[j].timestamp /\ order[i] < order[j])

\* limit(k)
Limit(cursor, k) == SubSeq(cursor, 1, IF Len(cursor) < k THEN Len(cursor) ELSE k)

\* every sequence of positions the cursor of the query may yield
Cursors(docs, user_id) ==
    LET found == Find(docs, user_id)
    IN  {Limit(Sort(docs, found, order), HISTORY_LIMIT) :
            order \in Permutations(Tied(docs, found))}

HistoryBody(docs, cursor) ==
    [history |-> [n \in 1..Len(cursor) |-> HistoryEntry(docs[cursor[n]])]]

\* the whole handler; `cursor` (the positions read) is kept beside the response.
\* session["user_id"] is always the str() of an ObjectId (login), so the
\* ObjectId(...) conversion of the handler does not raise.
UserHistory(session) ==
    /\ IF Unauthorized(session)
       THEN history' = Some([session |-> session, cursor |-> <<>>,
                             response |-> Resp(401, ErrorDict(MsgUnauthorized))])
       ELSE \E cursor \in Cursors(evaluations, session.user_id) :
                history' = Some([session |-> session, cursor |-> cursor,
                                 response |-> Resp(200, HistoryBody(evaluations, cursor))])
    /\ UNCHANGED <<call, users, cookies, client, now, files, evaluations, req>>

---------------------------------------------------------------------------
(* register, login, logout *)

\* str(user["_id"]) of the n-th document of users_collection
UserId(n) == "u" \o ToString(n)

\* generate_password_hash / check_password_hash
PasswordHash(password) == [hashed |-> password]
CheckPasswordHash(hash, password) == hash = PasswordHash(password)

UserDoc(n, username, password) ==
    [id |-> UserId(n), username |-> username, password_hash |-> PasswordHash(password)]

\* users_collection.find_one({"username": username}): positions of the matches
FindUser(username) == {n \in 1..Len(users) : users[n].username = username}

\* POST /register: refused when the name is taken, else the user is inserted
Register(username, password) ==
    /\ users' = IF FindUser(username) # {} THEN users
                 ELSE Append(users, UserDoc(Len(users) + 1, username, password))
    /\ history' = None
    /\ UNCHANGED <<call, cookies, client, now, files, evaluations, req>>

\* POST /login from browser b: the session is filled when the password matches
Login(b, username, password) ==
    /\ cookies' =
           IF \E n \in FindUser(username) :
                  /\ \A m \in FindUser(username) : n <= m
                  /\ CheckPasswordHash(users[n].password_hash, password)
           THEN [cookies EXCEPT ![b] =
                    [key \in DOMAIN cookies[b] \cup {"logged_in", "username", "user_id"} |->
                        CASE key = "logged_in" -> "True"
                          [] key = "username"  -> username
                          [] key = "user_id"   ->
                                users[CHOOSE n \in FindUser(username) :
                                          \A m \in FindUser(username) : n <= m].id
                          [] OTHER -> cookies[b][key]]]
           ELSE cookies
    /\ history' = None
    /\ UNCHANGED <<call, users, client, now, files, evaluations, req>>

\* GET /logout from browser b: the three keys are popped
Logout(b) ==
    /\ cookies' = [cookies EXCEPT ![b] =
                      [key \in DOMAIN cookies[b] \ {"logged_in", "username", "user_id"} |->
                          cookies[b][key]]]
    /\ history' = None
    /\ UNCHANGED <<call, users, client, now, files, evaluations, req>>

\* the two users of the pipeline specifications, registered in this order
TwoUsers == <<UserDoc(1, "alice", "pw"), UserDoc(2, "bob", "pw")>>

---------------------------------------------------------------------------
(* Inputs: users, file names, content types, file contents, model replies *)

Alice == LoggedIn("u1", "alice")
Bob   == LoggedIn("u2", "bob")

Sessions == {EmptySession, Alice, Bob}

Name_cover_png == <<"c", "o", "v", "e", "r", ".", "p", "n", "g">>
Name_P_JPEG    == <<"P", ".", "J", "P", "E", "G">>
Name_notes_xyz == <<"n", "o", "t", "e", "s", ".", "x", "y", "z">>
Name_b_pdf     == <<"b", ".", "p", "d", "f">>
Name_B_PDF     == <<"B", ".", "P", "D", "F">>
Name_c_docx    == <<"c", ".", "d", "o", "c", "x">>
Name_d_txt     == <<"d", ".", "t", "x", "t">>
Name_png_txt   == <<"p", "n", "g", ".", "t", "x", "t">>
Name_txt       == <<"t", "x", "t">>
Name_d_txt_gif == <<"d", ".", "t", "x", "t", ".", "g", "i", "f">>
Name_empty     == <<>>

FileNames ==
    { Name_cover_png, Name_P_JPEG, Name_notes_xyz, Name_b_pdf, Name_B_PDF,
      Name_c_docx, Name_d_txt, Name_png_txt, Name_txt, Name_d_txt_gif, Name_empty }

Type_none      == <<>>
Type_image_png == <<"i", "m", "a", "g", "e", "/", "p", "n", "g">>
Type_IMAGE_PNG == <<"I", "M", "A", "G", "E", "/", "P", "N", "G">>
Type_image     == <<"i", "m", "a", "g", "e">>
Type_text      == <<"t", "e", "x", "t", "/", "p", "l", "a", "i", "n">>
Type_pdf       ==
    <<"a", "p", "p", "l", "i", "c", "a", "t", "i", "o", "n", "/", "p", "d", "f">>

ContentTypes ==
    {Type_none, Type_image_png, Type_IMAGE_PNG, Type_image, Type_text, Type_pdf}

Text_Hello   == <<Run("H", 1), Run("e", 1), Run("l", 2), Run("o", 1)>>
Text_blank   == <<Run(" ", 2), Run("\n", 1)>>
Text_padded  == <<Run(" ", 1), Run("a", 2), Run("\n", 1)>>
Text_long    == <<Run("a", MAX_CHARS - 1), Run("b", 5)>>
Text_hidden  == <<Run(" ", MAX_CHARS), Run("a", 1)>>

TextFile(bytes) == Body("txt", bytes, <<>>, <<>>)
PdfFile(pages)  == Body("pdf", <<Run("%", 1), Run("xFF", 3)>>, pages, <<>>)
DocxFile(paras) == Body("docx", <<Run("P", 1), Run("xFF", 2)>>, <<>>, paras)
ImageFile       == Body("img", <<Run("xFF", 2), Run("J", 1)>>, <<>>, <<>>)

Pdf_three == PdfFile(<<PageText(Text_Hello), PageRaises, PageText(Text_padded)>>)
Pdf_none  == PdfFile(<<PageNone, PageText(<<>>)>>)
Pdf_long  == PdfFile(<<PageText(<<Run("a", MAX_CHARS)>>), PageText(Text_Hello)>>)
Pdf_raises == PdfFile(<<PageRaises, PageText(Text_Hello), PageRaises>>)
Docx_two  == DocxFile(<<Text_Hello, Text_long>>)
Docx_none == DocxFile(<<>>)

\* the uploads of the pipeline specification
Uploads ==
    { Upload(Name_cover_png, Type_image_png, ImageFile),
      Upload(Name_empty,     Type_none,      ImageFile),
      Upload(Name_b_pdf,     Type_image_png, Pdf_three),
      Upload(Name_notes_xyz, Type_text,      TextFile(Text_Hello)),
      Upload(Name_d_txt,     Type_text,      TextFile(Text_Hello)),
      Upload(Name_d_txt,     Type_text,      TextFile(Text_blank)),
      Upload(Name_d_txt,     Type_none,      TextFile(Text_long)),
      Upload(Name_B_PDF,     Type_pdf,       Pdf_three),
      Upload(Name_b_pdf,     Type_pdf,       TextFile(Text_Hello)),
      Upload(Name_c_docx,    Type_none,      Docx_two) }

SchemaKeys ==
    { "accuracy_score", "accuracy", "readability_score", "readability",
      "consistency_score", "consistency", "overall_rating", "summary" }

\* the schema-valid result with overall_rating 4.2
Result_good ==
    [accuracy_score    |-> JInt(90), accuracy    |-> JStr("ok"),
     readability_score |-> JInt(80), readability |-> JStr("ok"),
     consistency_score |-> JInt(85), consistency |-> JStr("ok"),
     overall_rating    |-> JFloat(42), summary   |-> JStr("Good.")]

Without(obj, key) == [x \in DOMAIN obj \ {key} |-> obj[x]]
With(obj, key, v) == [x \in DOMAIN obj \cup {key} |-> IF x = key THEN v ELSE obj[x]]

OverallRatings ==
    { JFloat(42), JFloat(40), JInt(4), JInt(0), JStr("high"), JStr(""), JNull,
      JBool(TRUE) }

Results ==
    {With(Result_good, "overall_rating", v) : v \in OverallRatings}
    \cup {Without(Result_good, key) : key \in SchemaKeys}
    \cup {With(Result_good, "error", JStr("quota")), With(Result_good, "error", JNull),
          [key \in {} |-> JNull]}

Replies ==
    {ReplyJson(obj) : obj \in Results}
    \cup {ReplyRaises("503 UNAVAILABLE"), ReplyNotJson("Expecting value")}

---------------------------------------------------------------------------
(* Wide inputs for the extractor: every text of at most MaxRuns runs *)

MaxRuns == 2

RunChars == {"a", " ", "xFF"}
RunLens  == {1, MAX_CHARS - 1, MAX_CHARS}

AllRuns == {Run(c, n) : c \in RunChars, n \in RunLens}

ByteStrings ==
    {b \in UNION {[1..n -> AllRuns] : n \in 0..MaxRuns} : Norm(b) = b}

WideBodies ==
    {TextFile(b) : b \in ByteStrings \cup {Text_Hello, Text_padded, Text_hidden}}
    \cup {Pdf_three, Pdf_none, Pdf_long, Pdf_raises, Docx_two, Docx_none, ImageFile}

WideUploads ==
    {Upload(f, t, d) : f \in FileNames, t \in ContentTypes, d \in WideBodies}

---------------------------------------------------------------------------
(* Specifications *)

InitWith(requests) ==
    /\ users = TwoUsers
    /\ cookies = <<>>
    /\ client \in {"ok", "None"}
    /\ now = 0
    /\ files = <<>>
    /\ evaluations = <<>>
    /\ req = [r \in requests |-> IdleReq]
    /\ history = None
    /\ call = None

Requests == DOMAIN req

\* One request through the whole pipeline, with every session, upload of
\* Uploads, reply of Replies and store failure, and history queries.
Init == InitWith({1})

Next ==
    \/ \E r \in Requests :
          Receive(r, Sessions, {None} \cup {Some(u) : u \in Uploads}, BOOLEAN)
    \/ \E r \in Requests : Evaluate(r, Replies)
    \/ \E r \in Requests : Save(r, BOOLEAN)
    \/ \E session \in Sessions : UserHistory(session)

Spec == Init /\ [][Next]_vars

\* One request of a logged-in user with every upload of WideUploads.
NextExtract ==
    \/ \E r \in Requests :
          Receive(r, {Alice}, {Some(u) : u \in WideUploads}, {TRUE})
    \/ \E r \in Requests :
          Evaluate(r, {ReplyJson(Result_good), ReplyRaises("timeout")})
    \/ \E r \in Requests : Save(r, {TRUE})

SpecExtract == Init /\ [][NextExtract]_vars

---------------------------------------------------------------------------
(* The history specification: the store already holds the documents of     *)
(* HISTORY_LIMIT - 1 earlier requests of alice, one per microsecond before  *)
(* time 0; two more requests arrive while the clock runs.                   *)

MaxMicros == 1

SeedCount == HISTORY_LIMIT - 1

\* the i-th earlier request was served SeedCount + 1 - i microseconds before time 0
SeedTime(i) == i - (SeedCount + 1)

\* the locals of the i-th earlier request when it saved its document
SeedReq(i) ==
    [IdleReq EXCEPT !.pc = "save",
                    !.session = Alice,
                    !.upload_filename = Some(Name_d_txt),
                    !.filename = Name_d_txt,
                    !.content_type = Type_text,
                    !.file_bytes = Some(TextFile(Text_Hello)),
                    !.file_id = i,
                    !.put_calls = 1,
                    !.branch = <<"text">>,
                    !.text_content = Some(Text_Hello),
                    !.evaluation_data = Some(Result_good),
                    !.sent = <<Contents(Some(Text_Hello), None, None)>>]

InitHistory ==
    /\ users = TwoUsers
    /\ cookies = <<>>
    /\ client = "ok"
    /\ now = 0
    /\ files = [i \in 1..SeedCount |->
                   Blob(TextFile(Text_Hello), Name_d_txt, Type_text, SeedTime(i), "u1")]
    /\ evaluations = [i \in 1..SeedCount |-> EvalDoc(SeedReq(i), SeedTime(i))]
    /\ req = [r \in {1, 2} |-> IdleReq]
    /\ history = None
    /\ call = None

HistoryUploads ==
    { Some(Upload(Name_cover_png, Type_image_png, ImageFile)),
      Some(Upload(Name_d_txt, Type_text, TextFile(Text_Hello))) }

NextHistory ==
    \/ \E r \in Requests : Receive(r, {Alice, Bob}, HistoryUploads, {TRUE})
    \/ \E r \in Requests : Evaluate(r, {ReplyJson(Result_good)})
    \/ \E r \in Requests : Save(r, {TRUE})
    \/ \E session \in Sessions : UserHistory(session)
    \/ TickMicro(MaxMicros)

SpecHistory == InitHistory /\ [][NextHistory]_vars

---------------------------------------------------------------------------
(* The accounts specification: nobody is registered; two browsers register, *)
(* log in and out, upload (two requests) and read their history.            *)

Browsers  == {1, 2}
Usernames == {"alice", "bob"}
Passwords == {"pw", "bad"}

InitAccounts ==
    /\ users = <<>>
    /\ cookies = [b \in Browsers |-> EmptySession]
    /\ client = "ok"
    /\ now = 0
    /\ files = <<>>
    /\ evaluations = <<>>
    /\ req = [r \in {1, 2} |-> IdleReq]
    /\ history = None
    /\ call = None

AccountUploads ==
    { Some(Upload(Name_cover_png, Type_image_png, ImageFile)),
      Some(Upload(Name_notes_xyz, Type_text, TextFile(Text_Hello))) }

NextAccounts ==
    \/ \E username \in Usernames : Register(username, "pw")
    \/ \E b \in Browsers, username \in Usernames, password \in Passwords :
          Login(b, username, password)
    \/ \E b \in Browsers : Logout(b)
    \/ \E r \in Requests :
          Receive(r, {cookies[b] : b \in Browsers}, AccountUploads, {TRUE})
    \/ \E r \in Requests :
          Evaluate(r, {ReplyJson(Result_good), ReplyRaises("timeout")})
    \/ \E r \in Requests : Save(r, BOOLEAN)
    \/ \E b \in Browsers : UserHistory(cookies[b])

SpecAccounts == InitAccounts /\ [][NextAccounts]_vars

---------------------------------------------------------------------------
(* The concurrency specification: two requests of the two users (or of one  *)
(* of them) are served at once, their steps interleaved in every order.     *)

Result_fair == With(Result_good, "overall_rating", JInt(3))

ConcurrentUploads ==
    { Some(Upload(Name_cover_png, Type_image_png, ImageFile)),
      Some(Upload(Name_d_txt,     Type_text,      TextFile(Text_Hello))),
      Some(Upload(Name_B_PDF,     Type_pdf,       Pdf_three)) }

InitConcurrent ==
    /\ users = TwoUsers
    /\ cookies = <<>>
    /\ client = "ok"
    /\ now = 0
    /\ files = <<>>
    /\ evaluations = <<>>
    /\ req = [r \in {1, 2} |-> IdleReq]
    /\ history = None
    /\ call = None

NextConcurrent ==
    \/ \E r \in Requests : Receive(r, {Alice, Bob}, ConcurrentUploads, {TRUE})
    \/ \E r \in Requests :
          Evaluate(r, {ReplyJson(Result_good), ReplyJson(Result_fair),
                       ReplyRaises("timeout")})
    \/ \E r \in Requests : Save(r, BOOLEAN)

SpecConcurrent == InitConcurrent /\ [][NextConcurrent]_vars

---------------------------------------------------------------------------
(* The evaluator specification: evaluate_textbook_gemini is called once     *)
(* with every combination of arguments, the client configured or not.       *)

TextArguments ==
    { None, Some(<<>>), Some(Text_blank), Some(Text_Hello), Some(Text_padded),
      Some(Text_hidden) }

EmptyBytes == Body("img", <<>>, <<>>, <<>>)

ImageArguments == {None, Some(ImageFile), Some(EmptyBytes)}

MimeArguments == {None, Some(<<>>), Some(Type_image_png), Some(Type_text)}

InitEvaluate ==
    /\ users = <<>>
    /\ cookies = <<>>
    /\ client \in {"ok", "None"}
    /\ now = 0
    /\ files = <<>>
    /\ evaluations = <<>>
    /\ req = <<>>
    /\ history = None
    /\ \E text_content \in TextArguments, image_bytes \in ImageArguments,
          image_mime \in MimeArguments :
            call = Some([text_content |-> text_content, image_bytes |-> image_bytes,
                         image_mime |-> image_mime, out |-> None])

\* the call returns; reply is what the external model does if it is called
CallReturns(reply) ==
    /\ call # None
    /\ Val(call).out = None
    /\ call' = Some([Val(call) EXCEPT !.out =
                        Some(evaluate_textbook_gemini(
                                 client, Val(call).text_content, Val(call).image_bytes,
                                 Val(call).image_mime, reply))])
    /\ UNCHANGED <<users, cookies, client, now, files, evaluations, req, history>>

NextEvaluate ==
    \E reply \in {ReplyJson(Result_good), ReplyRaises("timeout"),
                   ReplyNotJson("Expecting value")} : CallReturns(reply)

SpecEvaluate == InitEvaluate /\ [][NextEvaluate]_vars

---------------------------------------------------------------------------
(* Vocabulary of the claims *)

\* the documents persisted for request r: those holding the reference of its blob
RecordsOf(r) ==
    {i \in 1..Len(evaluations) : evaluations[i].file_id = req[r].file_id}

Done(r)     == req[r].pc = "done"
Status(r)   == Val(req[r].response).status
RespBody(r) == Val(req[r].response).body

\* the request got past the session, file and put steps
Stored(r) == req[r].file_id > 0

\* the evaluator was called for r and answered with the JSON object ed
Answered(r) ==
    /\ req[r].sent # <<>>
    /\ ~IsNone(req[r].evaluation_data)

FailureDetails == {"503 UNAVAILABLE", "Expecting value", "timeout"}

\* the error shapes of the taxonomy
InvocationFailed(body)  == body \in {ErrorDict(MsgCallFailed \o d) : d \in FailureDetails}
ClientUnavailable(body) == body = ErrorDict(MsgClientNone)
UnsupportedFormat(body) == body = ErrorDict(MsgUnsupported)
EmptyContent(body)      == body = ErrorDict(MsgNoText)

\* the capital of each letter that occurs in an extension
Capital ==
    [letter \in {"p", "n", "g", "j", "e", "w", "b", "m", "i", "f", "d", "o",
                 "c", "x", "t"} |->
        CASE letter = "p" -> "P" [] letter = "n" -> "N" [] letter = "g" -> "G"
          [] letter = "j" -> "J" [] letter = "e" -> "E" [] letter = "w" -> "W"
          [] letter = "b" -> "B" [] letter = "m" -> "M" [] letter = "i" -> "I"
          [] letter = "f" -> "F" [] letter = "d" -> "D" [] letter = "o" -> "O"
          [] letter = "c" -> "C" [] letter = "x" -> "X" [] letter = "t" -> "T"]

\* character c is the character e of an extension, in either case
Matches(c, e) == c = e \/ (e \in DOMAIN Capital /\ c = Capital[e])

\* name ends in ext, letter case ignored
HasExtension(name, ext) ==
    /\ Len(name) >= Len(ext)
    /\ \A i \in 1..Len(ext) : Matches(name[Len(name) - Len(ext) + i], ext[i])

ImageExtensions ==
    { <<".", "p", "n", "g">>, <<".", "j", "p", "g">>, <<".", "j", "p", "e", "g">>,
      <<".", "w", "e", "b", "p">>, <<".", "b", "m", "p">>, <<".", "g", "i", "f">> }

TextExtensions ==
    { <<".", "p", "d", "f">>, <<".", "d", "o", "c", "x">>, <<".", "t", "x", "t">> }

DeclaredImage(content_type) ==
    /\ Len(content_type) >= 6
    /\ <<content_type[1], content_type[2], content_type[3],
         content_type[4], content_type[5], content_type[6]>> = ImagePrefix

\* the upload of r counts as an image
ImageUpload(r) ==
    \/ DeclaredImage(req[r].content_type)
    \/ \E ext \in ImageExtensions : HasExtension(req[r].filename, ext)

TextNamed(r) == \E ext \in TextExtensions : HasExtension(req[r].filename, ext)

\* a is a prefix of b
IsPrefix(a, b) == TextCat(a, TextDrop(b, TextLen(a))) = b

---------------------------------------------------------------------------
(* C1 *)

\* C1: when the evaluator returns a JSON object that lacks one of the eight
\* required fields, the request ends with the InvocationFailed error and no
\* evaluation record is persisted for it.
C1_MissingFieldFails ==
    \A r \in Requests :
        ( /\ Done(r)
          /\ Answered(r)
          /\ ~(SchemaKeys \subseteq DOMAIN Val(req[r].evaluation_data)) )
        => /\ Status(r) = 500
           /\ InvocationFailed(RespBody(r))
           /\ RecordsOf(r) = {}

---------------------------------------------------------------------------
(* C2 *)

\* C2: a step that ends an analyze request in a failure exit (any response
\* other than the success response) leaves the evaluations collection as
\* it was.
C2_FailureLeavesEvaluations ==
    [][ \A r \in Requests :
          ( /\ req[r].pc # "done"
            /\ req'[r].pc = "done"
            /\ Val(req'[r].response).status # 200 )
          => evaluations' = evaluations ]_vars

\* a blob was stored, the evaluator was called and failed, nothing was saved
C2_Witness ==
    \E r \in Requests :
        /\ Done(r)
        /\ Status(r) = 500
        /\ InvocationFailed(RespBody(r))
        /\ Len(files) = 1
        /\ evaluations = <<>>

---------------------------------------------------------------------------
(* C3 *)

\* C3: a request whose evaluator result passed the error test ends with the
\* success response made of the evaluator's fields, whether or not its
\* document was inserted.
C3_SaveFailureKeepsResponse ==
    \A r \in Requests :
        ( /\ Done(r)
          /\ ~IsNone(req[r].evaluation_data)
          /\ "error" \notin DOMAIN Val(req[r].evaluation_data) )
        => /\ Status(r) = 200
           /\ DOMAIN RespBody(r) = SchemaKeys
           /\ \A key \in SchemaKeys \cap DOMAIN Val(req[r].evaluation_data) :
                  RespBody(r)[key] = Val(req[r].evaluation_data)[key]

\* the insert failed and the success response was returned
C3_Witness ==
    \E r \in Requests :
        /\ Done(r)
        /\ Status(r) = 200
        /\ RespBody(r).summary = JStr("Good.")
        /\ RecordsOf(r) = {}

---------------------------------------------------------------------------
(* C4 *)

\* C4: an upload takes the image branch exactly when its declared type
\* starts with image/ or its file name ends, letter case ignored, in an
\* image extension, also when the name ends in .pdf, .docx or .txt; every
\* upload takes exactly one of the image branch and the text branch.
C4_ImageClassification ==
    \A r \in Requests :
        Stored(r) =>
            /\ Len(req[r].branch) = 1
            /\ req[r].branch[1] = (IF ImageUpload(r) THEN "image" ELSE "text")
            /\ (req[r].branch[1] = "image") <=>
                   (~IsNone(req[r].image_bytes) /\ IsNone(req[r].text_content))

\* P.JPEG with no declared image type went the image branch
C4_Witness ==
    \E r \in Requests :
        /\ req[r].filename = Name_P_JPEG
        /\ req[r].content_type = Type_text
        /\ req[r].branch = <<"image">>
        /\ req[r].pc = "evaluate"

---------------------------------------------------------------------------
(* C5 *)

\* C5: an upload that is no image and whose name ends in none of .pdf,
\* .docx, .txt is rejected with the UnsupportedFormat message, which names
\* PDF, DOCX and TXT, and the evaluator is not called for it.
C5_UnsupportedFormat ==
    \A r \in Requests :
        (Stored(r) /\ ~ImageUpload(r) /\ ~TextNamed(r))
        => /\ Done(r)
           /\ Status(r) = 400
           /\ RespBody(r) =
                [error |-> JStr("Unsupported document type. Please upload PDF, DOCX, or TXT.")]
           /\ req[r].sent = <<>>
           /\ IsNone(req[r].evaluation_data)

\* notes.xyz, declared text/plain, was rejected
C5_Witness ==
    \E r \in Requests :
        /\ req[r].filename = Name_notes_xyz
        /\ req[r].content_type = Type_text
        /\ Done(r)
        /\ UnsupportedFormat(RespBody(r))

---------------------------------------------------------------------------
(* C6 *)

\* the text of the document of r before the size limit
Natural(r) == NaturalText(req[r].filename, Val(req[r].file_bytes)).text

\* C6: the text extraction accepts has at most 20,000 characters; when the
\* natural text is longer it is its first 20,000 characters; this text is
\* the text block sent to the evaluator and the full extracted text of the
\* record.
C6_TextBounded ==
    \A r \in Requests :
        (Stored(r) /\ ~IsNone(req[r].text_content)) =>
            LET text == Val(req[r].text_content)
            IN  /\ TextNamed(r)
                /\ TextLen(text) <= 20000
                /\ TextLen(Natural(r)) > 20000 =>
                       (TextLen(text) = 20000 /\ IsPrefix(text, Natural(r)))
                /\ \A n \in 1..Len(req[r].sent) :
                       req[r].sent[n] = <<PromptPart, TextPart(text)>>
                /\ \A i \in RecordsOf(r) :
                       evaluations[i].full_extracted_text = Some(text)

\* a document longer than the limit was evaluated and saved
C6_Witness ==
    \E r \in Requests :
        /\ Done(r)
        /\ Status(r) = 200
        /\ TextLen(Natural(r)) > 20000
        /\ TextLen(Val(req[r].text_content)) = 20000
        /\ \E i \in RecordsOf(r) :
               evaluations[i].full_extracted_text = req[r].text_content

---------------------------------------------------------------------------
(* C7 *)

\* r is a .txt upload that went the text branch
TxtUpload(r) ==
    /\ Stored(r)
    /\ req[r].branch = <<"text">>
    /\ HasExtension(req[r].filename, <<".", "t", "x", "t">>)

Decoded(r) == DecodeUtf8Ignore(Val(req[r].file_bytes).bytes)

\* every character of t is whitespace
AllWhitespace(t) == \A n \in 1..Len(t) : t[n].c \in {" ", "\n", "\t"}

Rejected(r, msg) ==
    /\ Done(r)
    /\ Status(r) = 400
    /\ RespBody(r) = ErrorDict(msg)
    /\ IsNone(req[r].text_content)

---------------------------------------------------------------------------
(* C8 *)

\* the history query that has just been answered with a list
Listed == history # None /\ Val(history).response.status = 200

\* the records of the user of the query
RecordsOfUser == {i \in 1..Len(evaluations) :
                     evaluations[i].user_id = Val(history).session.user_id}

\* the entries of the answer, and the records they were read from
Entries == Val(history).response.body.history
Shown   == {Val(history).cursor[n] : n \in 1..Len(Val(history).cursor)}

\* the answer has at most 50 entries, as many as the user has records up to
\* that number; they show distinct records of that user, and no record left
\* out is later than one that is shown
MostRecent ==
    LET cursor == Val(history).cursor
    IN  /\ Len(Entries) <= 50
        /\ Len(Entries) = Len(cursor)
        /\ Len(Entries) = IF Cardinality(RecordsOfUser) < 50
                           THEN Cardinality(RecordsOfUser) ELSE 50
        /\ Shown \subseteq RecordsOfUser
        /\ Cardinality(Shown) = Len(cursor)
        /\ \A n \in 1..Len(cursor) :
               /\ Entries[n].overall_rating = evaluations[cursor[n]].overall_rating
               /\ Entries[n].summary = evaluations[cursor[n]].summary
               /\ Entries[n].original_filename = evaluations[cursor[n]].original_filename
        /\ \A i \in RecordsOfUser \ Shown : \A j \in Shown :
               evaluations[i].timestamp <= evaluations[j].timestamp

\* C8 as stated: the history of a user has at most 50 entries, they are the
\* most recent records of that user, and each entry's record has a timestamp
\* strictly later than that of the entry after it.
C8_Original ==
    Listed =>
        /\ MostRecent
        /\ \A n \in 1..(Len(Entries) - 1) :
               evaluations[Val(history).cursor[n]].timestamp
                   > evaluations[Val(history).cursor[n + 1]].timestamp

\* C8 amended: the history of a user has at most 50 entries, they are the
\* most recent records of that user, and no entry's record has a timestamp
\* earlier than that of the entry after it; records saved at the same instant
\* have equal timestamps and come in either order.
C8_RecentFirst ==
    Listed =>
        /\ MostRecent
        /\ \A n \in 1..(Len(Entries) - 1) :
               evaluations[Val(history).cursor[n]].timestamp
                   >= evaluations[Val(history).cursor[n + 1]].timestamp

\* a user with 51 records is shown 50 of them, the two latest of which were
\* saved at the same instant
C8_Witness ==
    /\ Listed
    /\ Cardinality(RecordsOfUser) = 51
    /\ Len(Entries) = 50
    /\ evaluations[Val(history).cursor[1]].timestamp
           = evaluations[Val(history).cursor[2]].timestamp

---------------------------------------------------------------------------
(* C9, C10 *)

\* what the display of a rating is to be.  isinstance(v, (int, float)) holds
\* of True and False too, so a JSON boolean counts as a number.
RatingDisplay(v) ==
    CASE v = JFloat(42)   -> "4.2/5"
      [] v = JFloat(40)   -> "4.0/5"
      [] v = JInt(4)      -> "4/5"
      [] v = JInt(0)      -> "0/5"
      [] v = JBool(TRUE)  -> "True/5"
      [] v = JStr("high") -> "high"
      [] v = JStr("")     -> ""
      [] v = JNull        -> "No rating"

Numeric(v) == v.k \in {"int", "float"}

\* ed has the eight fields and a numeric overall_rating
SchemaValid(ed) ==
    /\ DOMAIN ed = SchemaKeys
    /\ Numeric(ed.overall_rating)

\* document doc holds the fields of the evaluator result ed
HoldsResult(doc, ed) ==
    /\ doc.overall_rating_value = ed.overall_rating
    /\ doc.overall_rating = RatingDisplay(ed.overall_rating)
    /\ doc.accuracy_score = ed.accuracy_score
    /\ doc.readability_score = ed.readability_score
    /\ doc.consistency_score = ed.consistency_score
    /\ doc.accuracy_text = ed.accuracy
    /\ doc.readability_text = ed.readability
    /\ doc.consistency_text = ed.consistency
    /\ doc.summary = ed.summary
    /\ doc.raw_evaluation = ed

\* C9 as stated: for a schema-valid result with numeric overall_rating v the
\* response carries the display "v/5" and exactly one record is persisted
\* for the request, holding v and the evaluator's fields.
C9_Original ==
    \A r \in Requests :
        (Done(r) /\ Answered(r) /\ SchemaValid(Val(req[r].evaluation_data))) =>
            LET ed == Val(req[r].evaluation_data)
            IN  /\ \E key \in DOMAIN RespBody(r) :
                       RespBody(r)[key] = JStr(RatingDisplay(ed.overall_rating))
                /\ Cardinality(RecordsOf(r)) = 1
                /\ \A i \in RecordsOf(r) : HoldsResult(evaluations[i], ed)

\* C9 amended: for a schema-valid result with numeric overall_rating v the
\* success response carries v itself as overall_rating and no display
\* string; at most one record is persisted for the request (none when the
\* insert fails), and it holds the display "v/5", the value v and the
\* evaluator's scores, narratives, summary and raw evaluation.
C9_RatingPersisted ==
    \A r \in Requests :
        (Done(r) /\ Answered(r) /\ SchemaValid(Val(req[r].evaluation_data))) =>
            LET ed == Val(req[r].evaluation_data)
            IN  /\ Status(r) = 200
                /\ RespBody(r).overall_rating = ed.overall_rating
                /\ \A key \in DOMAIN RespBody(r) :
                       RespBody(r)[key] # JStr(RatingDisplay(ed.overall_rating))
                /\ Cardinality(RecordsOf(r)) <= 1
                /\ \A i \in RecordsOf(r) : HoldsResult(evaluations[i], ed)

\* the result with overall_rating 4.2 was answered and saved as "4.2/5"
C9_Witness ==
    \E r \in Requests :
        /\ Done(r)
        /\ req[r].evaluation_data = Some(Result_good)
        /\ RespBody(r).overall_rating = JFloat(42)
        /\ Cardinality(RecordsOf(r)) = 1
        /\ \A i \in RecordsOf(r) :
               /\ evaluations[i].overall_rating = "4.2/5"
               /\ evaluations[i].overall_rating_value = JFloat(42)

---------------------------------------------------------------------------
(* C11 *)

\* request r was authenticated and carried a file
Accepted(r) ==
    /\ req[r].pc # "idle"
    /\ "logged_in" \in DOMAIN req[r].session
    /\ "user_id" \in DOMAIN req[r].session
    /\ req[r].file_bytes # None

\* the positions of the documents that request r inserted
InsertedBy(r) ==
    {req[r].inserts[n] : n \in 1..Len(req[r].inserts)} \ {0}

\* C11: an authenticated analyze request that carries a file calls the blob
\* store's put exactly once, and before the upload is classified or its text
\* extracted: whenever a branch was taken, and whatever the request's outcome,
\* the blob of the request is in the store under the request's reference;
\* every evaluation record the request persisted holds that reference.
C11_PutOnceBeforeExtraction ==
    \A r \in Requests :
        Accepted(r) =>
            /\ req[r].put_calls = 1
            /\ req[r].branch # <<>> => req[r].file_id > 0
            /\ req[r].file_id > 0 =>
                   /\ req[r].file_id <= Len(files)
                   /\ files[req[r].file_id].data = Val(req[r].file_bytes)
                   /\ files[req[r].file_id].filename = req[r].filename
                   /\ files[req[r].file_id].content_type = req[r].content_type
                   /\ files[req[r].file_id].user_id = req[r].session.user_id
            /\ req[r].file_id = 0 =>
                   /\ Done(r)
                   /\ Status(r) = 400
                   /\ InsertedBy(r) = {}
            /\ \A i \in InsertedBy(r) : evaluations[i].file_id = req[r].file_id

\* an upload was rejected as unsupported after its blob had been stored
C11_Witness ==
    \E r \in Requests :
        /\ Accepted(r)
        /\ Done(r)
        /\ RespBody(r) = ErrorDict(MsgUnsupported)
        /\ req[r].put_calls = 1
        /\ req[r].file_id = Len(files)
        /\ files[req[r].file_id].data = Val(req[r].file_bytes)

---------------------------------------------------------------------------
(* C12 *)

\* the calls of the external model and of insert_one made for request r
EvaluatorCalls(r) == Len(req[r].sent)
StoreWrites(r)    == Len(req[r].inserts)

\* request r got as far as calling evaluate_textbook_gemini
ReachedEvaluation(r) == req[r].evaluation_data # None

\* C12 as stated: every finished analyze request of an authenticated caller
\* with a file made exactly one call to the external evaluator and at most
\* one write to the evaluation store.
C12_Original ==
    \A r \in Requests :
        (Done(r) /\ Accepted(r)) =>
            /\ EvaluatorCalls(r) = 1
            /\ StoreWrites(r) <= 1

\* C12 amended: per analyze request the pipeline makes at most one call to
\* the external evaluator and at most one write to the evaluation store; a
\* finished request made exactly one call when its upload passed
\* classification and extraction and the client is configured, and none
\* otherwise; a request whose call failed made that one call only, and a
\* write is made only after the one call.
C12_AtMostOneCall ==
    \A r \in Requests :
        /\ EvaluatorCalls(r) <= 1
        /\ StoreWrites(r) <= 1
        /\ StoreWrites(r) = 1 => EvaluatorCalls(r) = 1
        /\ Done(r) =>
               /\ EvaluatorCalls(r) = 1 <=> (ReachedEvaluation(r) /\ client = "ok")
               /\ InvocationFailed(RespBody(r)) => EvaluatorCalls(r) = 1

\* a request whose one call of the model raised, answered 500 without a write
C12_Witness ==
    \E r \in Requests :
        /\ Done(r)
        /\ RespBody(r) = ErrorDict(MsgCallFailed \o "503 UNAVAILABLE")
        /\ EvaluatorCalls(r) = 1
        /\ StoreWrites(r) = 0

---------------------------------------------------------------------------
(* C13 *)

NoContent(body) == body = ErrorDict(MsgNoContent)

InputRejection(body) ==
    UnsupportedFormat(body) \/ EmptyContent(body) \/ NoContent(body)

EvaluatorFailure(body) ==
    ClientUnavailable(body) \/ InvocationFailed(body)

\* the body is an object with an `error` message
HasErrorMessage(body) ==
    /\ "error" \in DOMAIN body
    /\ body.error.k = "str"
    /\ body.error.s # ""

\* C13: a request answered with an input rejection (UnsupportedFormat,
\* EmptyContent, NoContent) has status 400, one answered with an evaluator
\* failure (ClientUnavailable, InvocationFailed) has status 500; in both
\* cases the body carries an `error` message and the request wrote nothing
\* to the evaluation store.
C13_ErrorStatuses ==
    \A r \in Requests :
        (Done(r) /\ (InputRejection(RespBody(r)) \/ EvaluatorFailure(RespBody(r)))) =>
            /\ InputRejection(RespBody(r)) => Status(r) = 400
            /\ EvaluatorFailure(RespBody(r)) => Status(r) = 500
            /\ HasErrorMessage(RespBody(r))
            /\ StoreWrites(r) = 0
            /\ RecordsOf(r) = {}
            /\ evaluations = <<>>

\* a blank .txt upload was answered 400 with the EmptyContent message
C13_Witness ==
    \E r \in Requests :
        /\ Done(r)
        /\ EmptyContent(RespBody(r))
        /\ Status(r) = 400
        /\ evaluations = <<>>

\* the NoContent branch of evaluate_textbook_gemini is not reached from
\* analyze: the evaluator is called with a non-blank text or with image bytes
C13_NoContentUnreached ==
    \A r \in Requests :
        /\ req[r].pc = "evaluate" =>
               ~(NoText(req[r].text_content) /\ IsNone(req[r].image_bytes))
        /\ Done(r) => ~NoContent(RespBody(r))

---------------------------------------------------------------------------
(* C14 *)

\* C14: whatever operation is performed (register, login, logout, analyze,
\* history), the evaluation records persisted before it are all still there
\* after it, each with all its field values: the collection only grows.
C14_RecordsImmutable ==
    [][ /\ Len(evaluations') >= Len(evaluations)
        /\ \A i \in 1..Len(evaluations) : evaluations'[i] = evaluations[i] ]_vars

\* two records are persisted, their user has logged out, and another user
\* has just read an empty history
C14_Witness ==
    /\ Len(evaluations) = 2
    /\ Len(users) = 2
    /\ \A b \in Browsers : cookies[b] # LoggedIn(evaluations[1].user_id, evaluations[1].username)
    /\ history # None
    /\ Val(history).response = Resp(200, [history |-> <<>>])

---------------------------------------------------------------------------
(* C15 *)

\* the content of request r as the evaluator is to receive it
OwnContent(r) ==
    (IF req[r].text_content = None THEN <<>>
     ELSE <<[part |-> "text", text |-> Val(req[r].text_content),
             data |-> None, mime |-> <<>>]>>)
    \o (IF req[r].image_bytes = None THEN <<>>
        ELSE <<[part |-> "image", text |-> <<>>, data |-> req[r].file_bytes,
                mime |-> Val(req[r].image_mime)]>>)

\* C15: however the steps of concurrent analyze requests interleave, every
\* persisted record was inserted by exactly one request and its user,
\* filename, file reference (and the blob behind it), extracted text and
\* evaluation are those of that request; every success response carries the
\* evaluation returned for the content of its own request.
C15_RequestsIndependent ==
    /\ \A i \in 1..Len(evaluations) :
           Cardinality({r \in Requests : i \in InsertedBy(r)}) = 1
    /\ \A r \in Requests :
           /\ \A i \in InsertedBy(r) :
                  /\ evaluations[i].user_id = req[r].session.user_id
                  /\ evaluations[i].username = req[r].session.username
                  /\ evaluations[i].original_filename = req[r].filename
                  /\ evaluations[i].file_id = req[r].file_id
                  /\ files[evaluations[i].file_id].data = Val(req[r].file_bytes)
                  /\ files[evaluations[i].file_id].user_id = req[r].session.user_id
                  /\ evaluations[i].full_extracted_text = req[r].text_content
                  /\ evaluations[i].raw_evaluation = Val(req[r].evaluation_data)
           /\ (Done(r) /\ Status(r) = 200) =>
                  /\ req[r].sent = <<(<<PromptPart>> \o OwnContent(r))>>
                  /\ \A key \in DOMAIN RespBody(r) :
                         RespBody(r)[key] = Val(req[r].evaluation_data)[key]

\* bob's PDF was stored after alice's image but evaluated and saved before
\* it; both records are there, with different evaluations
C15_Witness ==
    /\ Len(files) = 2 /\ Len(evaluations) = 2
    /\ files[1].user_id = "u1" /\ files[1].filename = Name_cover_png
    /\ files[2].user_id = "u2" /\ files[2].filename = Name_B_PDF
    /\ evaluations[1].user_id = "u2" /\ evaluations[1].file_id = 2
    /\ evaluations[2].user_id = "u1" /\ evaluations[2].file_id = 1
    /\ evaluations[1].raw_evaluation # evaluations[2].raw_evaluation
    /\ \A r \in Requests : Done(r) /\ Status(r) = 200

---------------------------------------------------------------------------
(* C16 *)

\* the upload of request r was classified and, for a document, its text
\* extracted
Extracted(r) ==
    /\ req[r].file_id > 0
    /\ \/ req[r].branch = <<"image">> /\ req[r].image_bytes # None
       \/ req[r].branch = <<"text">> /\ req[r].text_content # None

\* the evaluator returned a result without an error for request r
Evaluated(r) ==
    /\ req[r].evaluation_data # None
    /\ "error" \notin DOMAIN Val(req[r].evaluation_data)

\* C16: in every step, the evaluator is invoked for a request only if its
\* upload has been classified / extracted successfully before; a record is
\* persisted for it only if the evaluator has returned a result without
\* error before; and a request is answered with success only if it has
\* reached the persist step (its one insert_one call).
C16_StepOrder ==
    [][ \A r \in Requests :
          /\ Len(req'[r].sent) > Len(req[r].sent) =>
                 /\ Extracted(r)
                 /\ req[r].evaluation_data = None /\ req[r].inserts = <<>>
          /\ Len(req'[r].inserts) > Len(req[r].inserts) =>
                 /\ Extracted(r) /\ Evaluated(r) /\ Len(req[r].sent) = 1
                 /\ req[r].response = None
          /\ InsertedBy(r)' # InsertedBy(r) => Evaluated(r)
          /\ (req[r].response = None /\ req'[r].response # None
                 /\ Val(req'[r].response).status = 200) =>
                 /\ Evaluated(r)
                 /\ Len(req'[r].inserts) = 1 ]_vars

\* a PDF went through every step: extracted, evaluated, persisted, answered 200
C16_Witness ==
    \E r \in Requests :
        /\ Done(r) /\ Status(r) = 200
        /\ req[r].branch = <<"text">>
        /\ req[r].filename = Name_B_PDF
        /\ Len(req[r].sent) = 1
        /\ InsertedBy(r) = {1}

---------------------------------------------------------------------------
(* C17, C18, C19: the direct call of evaluate_textbook_gemini *)

\* the call has returned
CallDone == call # None /\ Val(call).out # None

Out == Val(Val(call).out)

\* the text argument is absent (None or "") or consists of whitespace only
TextAbsentOrBlank ==
    \/ Val(call).text_content = None
    \/ \A n \in 1..Len(Val(Val(call).text_content)) :
           Val(Val(call).text_content)[n].c \in {" ", "\n", "\t"}

ImageSupplied == Val(call).image_bytes # None

\* C17: when the client is not configured, evaluate returns the
\* ClientUnavailable error and makes no call of the external model, whatever
\* the text and image arguments are.
C17_ClientUnavailable ==
    (CallDone /\ client = "None") =>
        /\ ClientUnavailable(Out.result)
        /\ ~Out.called
        /\ Out.contents = <<>>

\* without a client, a call with a text and an image returned ClientUnavailable
C17_Witness ==
    /\ CallDone
    /\ client = "None"
    /\ Val(call).text_content = Some(Text_Hello)
    /\ Val(call).image_bytes = Some(ImageFile)
    /\ ClientUnavailable(Out.result)

\* C18 as stated: the call fails with NoContent whenever the text is absent
\* or blank and no image bytes are supplied, and does not fail with
\* NoContent when a non-blank text or image bytes are supplied.
C18_Original ==
    CallDone =>
        (NoContent(Out.result) <=> (TextAbsentOrBlank /\ ~ImageSupplied))

\* C18 amended: with the client configured, the call fails with NoContent
\* exactly when the text is absent or blank and no image bytes are supplied,
\* and then without calling the external model; with the client not
\* configured it never fails with NoContent (ClientUnavailable comes first).
C18_NoContent ==
    CallDone =>
        /\ client = "ok" =>
               /\ NoContent(Out.result) <=> (TextAbsentOrBlank /\ ~ImageSupplied)
               /\ NoContent(Out.result) => ~Out.called
        /\ client = "None" => ~NoContent(Out.result)

\* with a client, a call with a whitespace-only text and no image failed
\* with NoContent
C18_Witness ==
    /\ CallDone
    /\ client = "ok"
    /\ Val(call).text_content = Some(Text_blank)
    /\ ~ImageSupplied
    /\ NoContent(Out.result)

\* C19: the request body sent to the evaluator starts with the fixed prompt;
\* the text block follows if and only if the text is non-blank; the image
\* block follows if and only if image bytes are supplied; the text block
\* never comes after the image block, and there is nothing else.
C19_RequestBody ==
    (CallDone /\ Out.called) =>
        LET body   == Out.contents
            texts  == {n \in 1..Len(body) : body[n].part = "text"}
            images == {n \in 1..Len(body) : body[n].part = "image"}
        IN  /\ Len(body) >= 1
            /\ body[1] = PromptPart
            /\ \A n \in 2..Len(body) : body[n].part \in {"text", "image"}
            /\ Cardinality(texts) = (IF TextAbsentOrBlank THEN 0 ELSE 1)
            /\ Cardinality(images) = (IF ImageSupplied THEN 1 ELSE 0)
            /\ \A n \in texts : body[n].text = Val(Val(call).text_content)
            /\ \A n \in images : body[n].data = Val(call).image_bytes
            /\ \A n \in texts, m \in images : n < m

\* a call with a non-blank text and an image sent the prompt, the text and
\* the image, in this order
C19_Witness ==
    /\ CallDone
    /\ Out.called
    /\ Val(call).text_content = Some(Text_padded)
    /\ Val(call).image_bytes = Some(ImageFile)
    /\ Len(Out.contents) = 3
    /\ Out.contents[2].part = "text"
    /\ Out.contents[3].part = "image"

---------------------------------------------------------------------------
(* C20 *)

\* request r carried a PDF that went to text extraction
PdfUpload(r) ==
    /\ Stored(r)
    /\ req[r].branch = <<"text">>
    /\ HasExtension(req[r].filename, <<".", "p", "d", "f">>)
    /\ Val(req[r].file_bytes).fmt = "pdf"

Pages(r) == Val(req[r].file_bytes).pages

\* the entries joined with one newline between neighbours
RECURSIVE NewlineJoin(_)
NewlineJoin(entries) ==
    IF Len(entries) = 0 THEN <<>>
    ELSE IF Len(entries) = 1 THEN entries[1]
    ELSE TextCat(NewlineJoin(SubSeq(entries, 1, Len(entries) - 1)),
                 TextCat(<<Run("\n", 1)>>, entries[Len(entries)]))

\* what a page contributes when its extraction does not raise
PageEntry(page) == IF page.kind = "text" THEN page.text ELSE <<>>

\* the document was not aborted: the extractor got to its size limit
NotAborted(r) ==
    /\ NaturalText(req[r].filename, Val(req[r].file_bytes)).exc = ""
    /\ \/ req[r].text_content # None
       \/ Done(r) /\ EmptyContent(RespBody(r))

---------------------------------------------------------------------------
(* C21 *)

\* the MIME type an image upload of r is to be sent with
ResolvedMime(r) ==
    IF DeclaredImage(req[r].content_type) THEN req[r].content_type
    ELSE <<"i", "m", "a", "g", "e", "/", "j", "p", "e", "g">>

\* C21: for an upload classified as an image no text is extracted; every
\* call of the evaluator for it carries, after the prompt, one image part
\* and no text part; the bytes of the part are the uploaded bytes (those
\* stored as the blob), and its MIME type is the declared type when that
\* starts with image/ and image/jpeg otherwise.
C21_ImageBypassesExtraction ==
    \A r \in Requests :
        (Stored(r) /\ ImageUpload(r)) =>
            /\ req[r].branch = <<"image">>
            /\ IsNone(req[r].text_content)
            /\ req[r].image_bytes = Some(files[req[r].file_id].data)
            /\ req[r].image_mime = Some(ResolvedMime(r))
            /\ \A n \in 1..Len(req[r].sent) :
                   req[r].sent[n] =
                       <<PromptPart,
                         [part |-> "image", text |-> <<>>,
                          data |-> Some(files[req[r].file_id].data),
                          mime |-> ResolvedMime(r)]>>
            /\ (client = "ok" /\ ~IsNone(req[r].evaluation_data)) => Len(req[r].sent) = 1

\* cover.png, declared text/plain and holding a PDF, was sent to the
\* evaluator as image/jpeg with the bytes of the PDF
C21_Witness ==
    \E r \in Requests :
        /\ req[r].filename = Name_cover_png
        /\ req[r].content_type = Type_text
        /\ req[r].file_bytes = Some(Pdf_three)
        /\ req[r].sent = <<<<PromptPart, ImagePart(Pdf_three, DefaultMime)>>>>

---------------------------------------------------------------------------
(* C22 *)

\* the session lacks `logged_in` or lacks `user_id`
NotLoggedIn(session) == ~({"logged_in", "user_id"} \subseteq DOMAIN session)

\* request r is received in this step
Arrives(r) == req[r].pc = "idle" /\ req'[r].pc # "idle"

\* C22: an analyze request received without a logged-in session is answered
\* in the same step with 401 and the Unauthorized message; the step stores
\* no blob, does not call the evaluator, inserts no evaluation record and
\* leaves the users, the blobs and the evaluation records as they were.
C22_UnauthorizedChangesNothing ==
    [][\A r \in Requests :
          (Arrives(r) /\ NotLoggedIn(req'[r].session)) =>
              /\ req'[r].pc = "done"
              /\ req'[r].response = Some([status |-> 401, body |-> [error |-> JStr("Unauthorized")]])
              /\ req'[r].put_calls = 0
              /\ req'[r].file_id = 0
              /\ req'[r].sent = <<>>
              /\ req'[r].inserts = <<>>
              /\ files' = files
              /\ evaluations' = evaluations
              /\ users' = users]_vars

\* a request without a session was answered 401 while the stores held the
\* blob and the record of another request
C22_Witness ==
    \E r \in Requests :
        /\ Done(r)
        /\ NotLoggedIn(req[r].session)
        /\ Status(r) = 401
        /\ Len(files) = 1
        /\ Len(evaluations) = 1

---------------------------------------------------------------------------
(* C23 *)

\* every response the history query of user u may get from the store `docs`
HistoryOf(docs, u) == {HistoryBody(docs, cursor) : cursor \in Cursors(docs, u)}

\* this step belongs to an analyze request that is not of user u
StepOfAnother(u) ==
    \E r \in Requests :
        /\ req'[r] # req[r]
        /\ NotLoggedIn(req'[r].session) \/ req'[r].session.user_id # u

\* C23: a history query answered for a logged-in session lists only records
\* whose user id is that session's user id, each entry being taken from its
\* record; and no step of an analyze request of another user changes what
\* the history query of a user returns.
C23_HistoryIsolated ==
    [][/\ (history' # None /\ Val(history').response.status = 200) =>
              LET h == Val(history')
              IN  /\ Len(h.response.body.history) = Len(h.cursor)
                  /\ \A n \in 1..Len(h.cursor) :
                         /\ evaluations'[h.cursor[n]].user_id = h.session.user_id
                         /\ h.response.body.history[n].summary
                                = evaluations'[h.cursor[n]].summary
                         /\ h.response.body.history[n].original_filename
                                = evaluations'[h.cursor[n]].original_filename
                         /\ h.response.body.history[n].overall_rating
                                = evaluations'[h.cursor[n]].overall_rating
       /\ \A n \in 1..Len(users) :
              StepOfAnother(users[n].id) =>
                  HistoryOf(evaluations', users[n].id) = HistoryOf(evaluations, users[n].id)
      ]_vars

\* alice is shown her 49 records after bob saved a record of his own
C23_Witness ==
    /\ Listed
    /\ Val(history).session = Alice
    /\ Len(Entries) = 49
    /\ \E i \in 1..Len(evaluations) : evaluations[i].user_id = "u2"

---------------------------------------------------------------------------
(* C24 *)

\* the content the evaluator is called with for request r
TextGiven(r)  == ~IsNone(req[r].text_content) /\ Strip(Val(req[r].text_content)) # <<>>
ImageGiven(r) == ~IsNone(req[r].image_bytes)

\* the content blocks of a request body: its items after the prompt
Blocks(contents) == SubSeq(contents, 2, Len(contents))

\* C24: whenever analyze calls the evaluator it gives it exactly one of a
\* non-blank text (document upload) and an image (image upload); every
\* request body sent is the prompt followed by exactly one content block,
\* of the kind of the upload; no request is answered with the NoContent
\* error; and a persisted record has input_type "image" exactly when its
\* full_extracted_text is null.
C24_OneContentBlock ==
    /\ \A r \in Requests :
          /\ (req[r].pc = "evaluate" \/ ~IsNone(req[r].evaluation_data)) =>
                 /\ TextGiven(r) # ImageGiven(r)
                 /\ ImageGiven(r) <=> ImageUpload(r)
          /\ \A n \in 1..Len(req[r].sent) :
                 /\ req[r].sent[n][1].part = "prompt"
                 /\ Len(Blocks(req[r].sent[n])) = 1
                 /\ Blocks(req[r].sent[n])[1].part =
                        (IF ImageUpload(r) THEN "image" ELSE "text")
                 /\ ~ImageUpload(r) =>
                        Strip(Blocks(req[r].sent[n])[1].text) # <<>>
          /\ Done(r) => RespBody(r) # [error |-> JStr("No content to analyze.")]
    /\ \A i \in 1..Len(evaluations) :
          /\ evaluations[i].input_type \in {"image", "document"}
          /\ (evaluations[i].input_type = "image")
                 <=> (evaluations[i].full_extracted_text = None)

\* a document was evaluated from one text block and saved with its text
C24_Witness ==
    \E r \in Requests :
        /\ Done(r)
        /\ Status(r) = 200
        /\ Len(req[r].sent) = 1
        /\ ~IsNone(req[r].text_content)
        /\ Blocks(req[r].sent[1]) = <<TextPart(Val(req[r].text_content))>>
        /\ evaluations # <<>>
        /\ evaluations[1].input_type = "document"
        /\ evaluations[1].full_extracted_text = req[r].text_content

---------------------------------------------------------------------------
(* C25 *)

\* the upload of r arrived with an empty file name
Unnamed(r) == req[r].upload_filename = Some(<<>>)

\* C25: an upload that arrives with an empty file name is handled and
\* stored under the name camera_capture.jpg and takes the image branch,
\* whatever its declared type and its bytes: it is sent with the declared
\* type when that starts with image/ and with image/jpeg otherwise, no text
\* is extracted from it, and it is never answered with UnsupportedFormat.
C25_UnnamedUploadIsImage ==
    \A r \in Requests :
        (Stored(r) /\ Unnamed(r)) =>
            /\ req[r].filename =
                   <<"c", "a", "m", "e", "r", "a", "_", "c", "a", "p", "t", "u", "r", "e",
                     ".", "j", "p", "g">>
            /\ files[req[r].file_id].filename = req[r].filename
            /\ req[r].branch = <<"image">>
            /\ IsNone(req[r].text_content)
            /\ req[r].image_mime = Some(ResolvedMime(r))
            /\ \A n \in 1..Len(req[r].sent) :
                   /\ Len(req[r].sent[n]) = 2
                   /\ req[r].sent[n][2].part = "image"
                   /\ req[r].sent[n][2].mime = ResolvedMime(r)
            /\ Done(r) =>
                   RespBody(r) # [error |->
                       JStr("Unsupported document type. Please upload PDF, DOCX, or TXT.")]
            /\ \A i \in RecordsOf(r) :
                   /\ evaluations[i].input_type = "image"
                   /\ evaluations[i].original_filename = req[r].filename

\* an unnamed upload declared application/pdf and holding a PDF was
\* evaluated as a JPEG image and saved as camera_capture.jpg
C25_Witness ==
    \E r \in Requests :
        /\ Unnamed(r)
        /\ req[r].content_type = Type_pdf
        /\ req[r].file_bytes = Some(Pdf_three)
        /\ req[r].sent = <<<<PromptPart, ImagePart(Pdf_three, DefaultMime)>>>>
        /\ Done(r)
        /\ Status(r) = 200
        /\ evaluations # <<>>
        /\ evaluations[1].original_filename = CameraCaptureName

---------------------------------------------------------------------------
(* C26 *)

\* the object the evaluator returned to request r
Result(r) == Val(req[r].evaluation_data)

\* C26: a request whose evaluator result has a key `error` (whatever its
\* value, and whatever other fields the object has) is answered 500 with
\* that object and inserts no record; a request whose evaluator result has
\* no key `error` goes on to save: it makes one insert, the record inserted
\* holds the result, and the request is answered 200.
C26_ErrorKeyDecides ==
    \A r \in Requests :
        ~IsNone(req[r].evaluation_data) =>
            IF "error" \in DOMAIN Result(r)
            THEN /\ Done(r)
                 /\ Status(r) = 500
                 /\ RespBody(r) = Result(r)
                 /\ StoreWrites(r) = 0
                 /\ RecordsOf(r) = {}
            ELSE /\ req[r].pc \in {"save", "done"}
                 /\ Done(r) =>
                        /\ Status(r) = 200
                        /\ StoreWrites(r) = 1
                        /\ req[r].inserts[1] # 0 =>
                               evaluations[req[r].inserts[1]].raw_evaluation = Result(r)

\* a result with all eight schema fields and an `error` key was answered 500
\* and nothing was saved
C26_Witness ==
    \E r \in Requests :
        /\ ~IsNone(req[r].evaluation_data)
        /\ {"accuracy_score", "accuracy", "readability_score", "readability",
            "consistency_score", "consistency", "overall_rating", "summary", "error"}
               = DOMAIN Result(r)
        /\ Done(r)
        /\ Status(r) = 500
        /\ evaluations = <<>>

\* the empty object was saved as a successful evaluation
C26_EmptyObjectSaved ==
    \E r \in Requests :
        /\ req[r].evaluation_data = Some([key \in {} |-> JNull])
        /\ Done(r)
        /\ Status(r) = 200
        /\ Len(evaluations) = 1

---------------------------------------------------------------------------
(* C27 *)

\* request r put the blob that is at position b of the blob store
PutBy(r, b) ==
    /\ req[r].put_calls = 1
    /\ req[r].file_id = b
    /\ files[b].data = Val(req[r].file_bytes)
    /\ files[b].filename = req[r].filename
    /\ files[b].content_type = req[r].content_type
    /\ files[b].user_id = req[r].session.user_id

\* C27: after any sequence of analyze requests every evaluation record
\* refers to a blob that is in the blob store and that was put by the very
\* request that inserted the record; no two records refer to the same blob;
\* and there are at least as many blobs as evaluation records.
C27_RecordsReferToBlobs ==
    /\ \A i \in 1..Len(evaluations) :
          /\ evaluations[i].file_id \in 1..Len(files)
          /\ \E r \in Requests :
                 i \in InsertedBy(r) /\ PutBy(r, evaluations[i].file_id)
          /\ \A j \in 1..Len(evaluations) :
                 evaluations[j].file_id = evaluations[i].file_id => j = i
    /\ Len(files) >= Len(evaluations)

\* two requests were served; the first one's evaluation failed and left its
\* blob without a record, the second one's record refers to the second blob
C27_Witness ==
    /\ \A r \in Requests : Done(r)
    /\ Len(files) = 2
    /\ Len(evaluations) = 1
    /\ evaluations[1].file_id = 2
    /\ \E r \in Requests : Status(r) = 500 /\ req[r].file_id = 1

---------------------------------------------------------------------------
(* C28 *)

\* r is a document upload (.pdf, .docx or .txt) that its parser could read
Parsed(r) ==
    /\ Stored(r)
    /\ req[r].branch = <<"text">>
    /\ TextNamed(r)
    /\ NaturalText(req[r].filename, Val(req[r].file_bytes)).exc = ""

\* the first 20,000 characters of the text of the document of r
Leading(r) == TextTake(Natural(r), 20000)

\* C28: the blank test looks at the text after the cut to 20,000
\* characters.  A document whose first 20,000 characters are all whitespace
\* (or that has no characters) is rejected with EmptyContent, also when
\* characters that are not whitespace follow; every other document is
\* accepted with exactly its first 20,000 characters as its text, leading
\* and trailing whitespace included.
C28_BlankTestAfterCut ==
    \A r \in Requests :
        Parsed(r) =>
            IF AllWhitespace(Leading(r))
            THEN /\ Rejected(r, "No readable text found in the uploaded file.")
                 /\ req[r].sent = <<>>
            ELSE /\ req[r].text_content = Some(Leading(r))
                 /\ Done(r) => ~EmptyContent(RespBody(r))

\* 20,000 spaces followed by the letter a were rejected as empty content
C28_Witness ==
    \E r \in Requests :
        /\ Parsed(r)
        /\ Natural(r) = <<Run(" ", 20000), Run("a", 1)>>
        /\ Rejected(r, MsgNoText)

\* the text " aa\n" was accepted with its leading blank and trailing newline
C28_WhitespaceKept ==
    \E r \in Requests :
        /\ Parsed(r)
        /\ Natural(r) = Text_padded
        /\ Strip(Natural(r)) # Natural(r)
        /\ req[r].text_content = Some(Text_padded)

===========================================================================
